---- MODULE Spec2Model ----
(***************************************************************************)
(* Model of backend/sih_backend/server/index.js: the Domain Allowlist      *)
(* Guard, the completeness check and the GET /api/product-info handler     *)
(* with its HTML and Browser extractors.                                   *)
(*                                                                         *)
(* JavaScript strings are sequences of one-character strings; JavaScript   *)
(* values are tagged records (Null, Str, Num) so that truthiness, `||`     *)
(* and `||=` can be computed as the engine computes them.                  *)
(***************************************************************************)
EXTENDS Integers, Sequences, FiniteSets, TLC

VARIABLES
    pc,         \* position of the product-info handler
    mode,       \* req.query.mode after String(.. || "auto")
    inputUrl,   \* u0, the parsed input URL
    resp,       \* the response sent (NoResp until one is sent)
    sent,       \* number of responses sent
    landed,     \* finalUrl of the extractor that is running
    startUrl,   \* the argument of extractWithBrowser
    bodyRead,   \* the body read by resp.text() (kind "none" before)
    htmlOut,    \* what tryHtml produced: none / threw / value (null or record)
    brOut,      \* what extractWithBrowser produced: none / threw / value
    browser,    \* the chromium session: none / open / closed
    pending,    \* exception travelling through the finally block
    finalChecked, \* the browser path has passed the final-host test
    nFetch,     \* direct fetches issued
    nLaunch,    \* chromium.launch calls
    nGoto,      \* page.goto calls
    nQuery,     \* page.evaluate / locator queries of page content
    nFixture,   \* sandboxLookup calls
    fixtures,   \* the SANDBOX table
    sessions,   \* the chromium sessions of the machine, by the request that launched
    conc,       \* the request now running (me) and the locals of the one suspended
    served,     \* the first answer given to each sandbox URL (other requests served before)
    cfg,        \* module configuration: genAI, visionClient, OCR_PROVIDERS
    ocr,        \* the POST /api/ocr handler
    bc,         \* lookupBarcodeInfo
    fn,         \* pure-function harness: function applied ("" = none yet)
    arg,        \* pure-function harness: the input drawn in Init
    ret         \* pure-function harness: the value returned

vars == <<pc, mode, inputUrl, resp, sent, landed, startUrl, bodyRead, htmlOut, brOut, browser,
          pending, finalChecked, nFetch, nLaunch, nGoto, nQuery, nFixture,
          fixtures, sessions, conc, served, cfg, ocr, bc, fn, arg, ret>>

reqVars == <<pc, mode, inputUrl, resp, sent, landed, startUrl, bodyRead, htmlOut, brOut, browser,
             pending, finalChecked, nFetch, nLaunch, nGoto, nQuery, nFixture,
             fixtures, sessions, conc>>

fnVars == <<fn, arg, ret>>

\* what a step of the product-info handler never touches
otherVars == <<fn, arg, ret, served, cfg, ocr, bc, conc>>

svcVars == <<cfg, ocr, bc>>

(***************************************************************************)
(* Strings                                                                 *)
(***************************************************************************)
UpperChars == <<"A","B","C","D","E","F","G","H","I","J","K","L","M",
                "N","O","P","Q","R","S","T","U","V","W","X","Y","Z">>
LowerChars == <<"a","b","c","d","e","f","g","h","i","j","k","l","m",
                "n","o","p","q","r","s","t","u","v","w","x","y","z">>

IndexIn(c, s) == IF \E i \in 1..Len(s) : s[i] = c
                 THEN CHOOSE i \in 1..Len(s) : s[i] = c
                 ELSE 0

\* String.prototype.toLowerCase, one character
toLowerChar(c) == IF IndexIn(c, UpperChars) > 0
                  THEN LowerChars[IndexIn(c, UpperChars)] ELSE c

\* the regexp engine's Canonicalize under /i: the upper-case form
Canonicalize(c) == IF IndexIn(c, LowerChars) > 0
                   THEN UpperChars[IndexIn(c, LowerChars)] ELSE c

toLowerCase(s) == [i \in 1..Len(s) |-> toLowerChar(s[i])]

endsWith(s, suf) ==
    /\ Len(suf) <= Len(s)
    /\ \A i \in 1..Len(suf) : s[Len(s) - Len(suf) + i] = suf[i]

includes(s, sub) ==
    \E k \in 0..(Len(s) - Len(sub)) : \A i \in 1..Len(sub) : s[k + i] = sub[i]

(***************************************************************************)
(* 4.1 Domain Allowlist Guard                                              *)
(***************************************************************************)
AMAZON_IN     == <<"a","m","a","z","o","n",".","i","n">>
FLIPKART_COM  == <<"f","l","i","p","k","a","r","t",".","c","o","m">>
MYNTRA_COM    == <<"m","y","n","t","r","a",".","c","o","m">>
BIGBASKET_COM == <<"b","i","g","b","a","s","k","e","t",".","c","o","m">>
GROFERS_COM   == <<"g","r","o","f","e","r","s",".","c","o","m">>
ONEMG_COM     == <<"1","m","g",".","c","o","m">>
NYKAA_COM     == <<"n","y","k","a","a",".","c","o","m">>

\* the literal part of each pattern of ALLOW_RE, in the order of the array
ALLOW_RE == <<AMAZON_IN, FLIPKART_COM, MYNTRA_COM, BIGBASKET_COM,
              GROFERS_COM, ONEMG_COM, NYKAA_COM>>

\* the literal lit matches host at position p (1-based) under the /i flag
LitAt(lit, host, p) ==
    /\ p + Len(lit) - 1 <= Len(host)
    /\ \A i \in 1..Len(lit) :
          Canonicalize(host[p + i - 1]) = Canonicalize(lit[i])

\* a pattern with the (\.|^) group dropped: lit$ only
reTestUnanchored(lit, host) ==
    \E p \in 1..(Len(host) + 1) :
        LitAt(lit, host, p) /\ p + Len(lit) = Len(host) + 1

\* /(\.|^)lit$/i.test(host): some position where the group matches "." or
\* the start of input, the literal follows, and $ is the end of input
reTest(lit, host) ==
    \E p \in 1..(Len(host) + 1) :
        \/ /\ p <= Len(host)
           /\ host[p] = "."
           /\ LitAt(lit, host, p + 1)
           /\ p + 1 + Len(lit) = Len(host) + 1
        \/ /\ p = 1
           /\ LitAt(lit, host, p)
           /\ p + Len(lit) = Len(host) + 1

isAllowedHost(host) == \E k \in 1..Len(ALLOW_RE) : reTest(ALLOW_RE[k], host)

(***************************************************************************)
(* Hostnames the guard is exercised on: every concatenation of at most     *)
(* MaxPieces pieces.                                                       *)
(***************************************************************************)
MaxPieces == 3

DOT  == <<".">>
EVIL == <<"e","v","i","l">>
WWW  == <<"W","w","w">>
COM  == <<"c","o","m">>
AMAZON_MIXED == <<"A","m","a","Z","O","N",".","I","n">>
NYKAA_UPPER  == <<"N","Y","K","A","A",".","C","O","M">>

Pieces == {AMAZON_IN, FLIPKART_COM, MYNTRA_COM, BIGBASKET_COM, GROFERS_COM,
           ONEMG_COM, NYKAA_COM, DOT, EVIL, WWW, COM, AMAZON_MIXED,
           NYKAA_UPPER}

RECURSIVE HostsOf(_)
HostsOf(n) == IF n = 0 THEN {<<>>}
              ELSE HostsOf(n - 1) \cup
                   {h \o p : h \in HostsOf(n - 1), p \in Pieces}

GuardHosts == HostsOf(MaxPieces)

(***************************************************************************)
(* JavaScript values                                                       *)
(***************************************************************************)
Null == [t |-> "null"]
Str(s) == [t |-> "str", v |-> s]
\* the number m / 10^e, with e = 0 or the last digit of m nonzero
Num(m, e) == [t |-> "num", v |-> m, e |-> e]
NaN == [t |-> "nan"]
Undefined == [t |-> "undefined"]
\* an array
Arr(xs) == [t |-> "arr", v |-> xs]

\* ToBoolean: null, "", 0 and NaN are falsy
Truthy(x) == CASE x.t = "null" -> FALSE
               [] x.t = "nan"  -> FALSE
               [] x.t = "undefined" -> FALSE
               [] x.t = "str"  -> Len(x.v) > 0
               [] x.t = "num"  -> x.v # 0
               [] OTHER        -> TRUE

\* a || b
Or(a, b) == IF Truthy(a) THEN a ELSE b

\* c1 || c2 || ... || cn : the first truthy operand, else the last one
RECURSIVE OrChain(_)
OrChain(cs) == IF Len(cs) = 1 THEN cs[1]
               ELSE IF Truthy(cs[1]) THEN cs[1] ELSE OrChain(Tail(cs))

Digits == <<"0","1","2","3","4","5","6","7","8","9">>
IsDigit(c) == IndexIn(c, Digits) > 0
DigitVal(c) == IndexIn(c, Digits) - 1

RECURSIVE DigitsValue(_)
DigitsValue(ds) == IF ds = <<>> THEN 0
                   ELSE 10 * DigitsValue(SubSeq(ds, 1, Len(ds) - 1))
                        + DigitVal(ds[Len(ds)])

RECURSIVE Normalise(_, _)
Normalise(m, e) == IF e > 0 /\ m % 10 = 0 THEN Normalise(m \div 10, e - 1)
                   ELSE Num(m, e)

\* Number(s) for a string s holding only digits and "."
NumberOf(s) ==
    LET dots == SelectSeq(s, LAMBDA c : c = ".")
        digs == SelectSeq(s, IsDigit)
        dot  == IndexIn(".", s)
    IN  IF s = <<>> THEN Num(0, 0)
        ELSE IF Len(dots) > 1 \/ digs = <<>> THEN NaN
        ELSE IF dot = 0 THEN Num(DigitsValue(digs), 0)
        ELSE Normalise(DigitsValue(digs), Len(s) - dot)

normalizePrice(val) ==
    IF val.t = "null" THEN Null
    ELSE IF val.t = "num" THEN val
    ELSE LET n == NumberOf(SelectSeq(val.v, LAMBDA c : IsDigit(c) \/ c = "."))
         IN  IF n.t = "num" THEN n ELSE Null

platformFromHost(host) ==
    IF includes(host, <<"a","m","a","z","o","n">>) THEN "Amazon"
    ELSE IF includes(host, <<"f","l","i","p","k","a","r","t">>) THEN "Flipkart"
    ELSE IF includes(host, <<"m","y","n","t","r","a">>) THEN "Myntra"
    ELSE IF includes(host, <<"b","i","g","b","a","s","k","e","t">>) THEN "BigBasket"
    ELSE IF includes(host, <<"n","y","k","a","a">>) THEN "Nykaa"
    ELSE IF includes(host, <<"1","m","g">>) THEN "1mg"
    ELSE "Unknown"

\* the check with the image operand left out
minimalOkNoImage(d) ==
    IF d = Null THEN FALSE
    ELSE Truthy(d.productName) \/ Truthy(d.brand) \/ Truthy(d.price)

\* !!(d?.productName || d?.brand || d?.price || d?.image)
minimalOk(d) ==
    IF d = Null THEN FALSE
    ELSE Truthy(OrChain(<<d.productName, d.brand, d.price, d.image>>))

(***************************************************************************)
(* URLs, hosts and page contents the handler is exercised on               *)
(***************************************************************************)
H_WWW_AMAZON == <<"w","w","w",".">> \o AMAZON_IN
H_FLIPKART   == FLIPKART_COM
H_WWW_1MG    == <<"w","w","w",".">> \o ONEMG_COM
H_SPOOF      == AMAZON_IN \o <<".">> \o EVIL \o <<".">> \o COM
H_EVILAMAZON == EVIL \o AMAZON_IN

ReqHosts == {H_WWW_AMAZON, H_FLIPKART, H_WWW_1MG, H_SPOOF, H_EVILAMAZON}

\* the product id in the path (/dp/ID, /gp/product/ID) or the ASIN query
\* parameter of the URL ("" = none)
Asins == {"", "B07WNS52H2", "B000000000", "b07wns52h2", "B07"}

Url(h, a) == [hostname |-> h, asin |-> a]
\* the empty string in the place of a URL (Response.url of a synthetic response)
EmptyUrl == Url(<<>>, "")
Urls == {Url(h, a) : h \in ReqHosts, a \in Asins}
\* where a fetch or a navigation can end up after redirects
LandingUrls == {Url(h, "") : h \in ReqHosts}

Modes == {"auto", "html", "browser", "sandbox", "turbo"}

\* the requests served: the product id is varied where it is read (sandbox)
Requests == {rq \in Urls \X Modes : rq[1].asin = "" \/ rq[2] = "sandbox"}

NAME_A == <<"T","e","a">>
NAME_LD == <<"H","o","n","e","y">>
NAME_TITLE == <<"T","e","a",":"," ","A","m","a","z","o","n",".","i","n"," ","x">>
BRAND_A == <<"A","c","m","e">>
BRAND_LD == <<"L","d","C","o">>
IMG_A == <<"a",".","p","n","g">>
IMG_LD == <<"l",".","p","n","g">>
PRICE_PLAIN == <<"4","9","9">>
PRICE_NA == <<"N","/","A">>
PRICE_ZERO == <<"0">>

(***************************************************************************)
(* 4.2 sandbox fixtures                                                    *)
(***************************************************************************)
\* SANDBOX[vendor][key]; the fields kept are those of the model's record
SANDBOX(vendor, key) ==
    IF vendor = "amazon" /\ key = "B07WNS52H2"
    THEN [productName |-> Str(<<"N","A","K","P","R","O">>),
          brand |-> Str(<<"N","A","K","P","R","O">>),
          price |-> Num(499, 0), image |-> Str(IMG_A)]
    ELSE IF vendor = "flipkart" /\ key = "example-sku-1"
    THEN [productName |-> Str(<<"H","o","n","e","y">>),
          brand |-> Str(<<"F","G">>),
          price |-> Num(349, 0), image |-> Str(IMG_A)]
    ELSE IF vendor = "myntra" /\ key = "example-sku-2"
    THEN [productName |-> Str(<<"T","e","a">>),
          brand |-> Str(<<"T","W">>),
          price |-> Num(249, 0), image |-> Str(IMG_A)]
    ELSE Null

FixtureKeys == {<<"amazon", "B07WNS52H2">>, <<"flipkart", "example-sku-1">>,
                <<"myntra", "example-sku-2">>}

\* the table as the module creates it
InitialFixtures == [k \in FixtureKeys |-> SANDBOX(k[1], k[2])]

\* SANDBOX[vendor]?.[key] on the current table
fixtureAt(vendor, key) ==
    IF <<vendor, key>> \in DOMAIN fixtures THEN fixtures[<<vendor, key>>] ELSE Null

NoKey == [vendor |-> "", key |-> ""]

\* /^[A-Z0-9]{10}$/i on the product ids used here
isAsin(id) == id \in {"B07WNS52H2", "B000000000", "b07wns52h2"}

\* String.prototype.toUpperCase on the product ids used here
toUpperId(id) == IF id = "b07wns52h2" THEN "B07WNS52H2" ELSE id

extractSandboxKey(u) ==
    LET host == toLowerCase(u.hostname)
    IN  IF endsWith(host, AMAZON_IN) /\ isAsin(u.asin)
        THEN [vendor |-> "amazon", key |-> toUpperId(u.asin)]
        ELSE IF endsWith(host, FLIPKART_COM)
        THEN [vendor |-> "flipkart", key |-> "example-sku-1"]
        ELSE IF endsWith(host, MYNTRA_COM)
        THEN [vendor |-> "myntra", key |-> "example-sku-2"]
        ELSE NoKey

sandboxLookup(u) ==
    LET info == extractSandboxKey(u)
        item == fixtureAt(info.vendor, info.key)
    IN  IF info = NoKey THEN Null
        ELSE IF item = Null THEN Null
        ELSE [platform |-> platformFromHost(u.hostname),
              url |-> u,
              productName |-> item.productName,
              brand |-> item.brand,
              price |-> item.price,
              image |-> Or(item.image, Null)]

(***************************************************************************)
(* 4.3 HTML extraction                                                     *)
(***************************************************************************)
RECURSIVE trimEnd(_)
trimEnd(s) == IF s # <<>> /\ s[Len(s)] = " "
              THEN trimEnd(SubSeq(s, 1, Len(s) - 1)) ELSE s

RECURSIVE trimStart(_)
trimStart(s) == IF s # <<>> /\ s[1] = " " THEN trimStart(Tail(s)) ELSE s

trim(s) == trimStart(trimEnd(s))

AMZ_TAG == <<":"," ","A","m","a","z","o","n",".","i","n">>

\* productName.replace(/\s*: Amazon\.in.*$/i, "").trim() when the test
\* /: Amazon\.in/i succeeds
stripAmazonTag(name) ==
    IF name.t # "str" \/ ~Truthy(name) THEN name
    ELSE IF \E p \in 1..Len(name.v) : LitAt(AMZ_TAG, name.v, p)
    THEN LET p == CHOOSE q \in 1..Len(name.v) :
                     /\ LitAt(AMZ_TAG, name.v, q)
                     /\ \A r \in 1..(q - 1) : ~LitAt(AMZ_TAG, name.v, r)
         IN  Str(trim(SubSeq(name.v, 1, p - 1)))
    ELSE name

\* the branch of the selector table taken for a host
BranchOf(host) ==
    IF endsWith(host, AMAZON_IN) THEN "amazon"
    ELSE IF endsWith(host, FLIPKART_COM) THEN "flipkart"
    ELSE IF endsWith(host, MYNTRA_COM) THEN "myntra"
    ELSE IF endsWith(host, NYKAA_COM) THEN "nykaa"
    ELSE IF endsWith(host, BIGBASKET_COM) THEN "bigbasket"
    ELSE "none"

\* The candidates of each `||` chain of extractFromHtml, in the listed order.
\* "t": t(sel), meta(p), attr(sel, a): null or a non-empty string;
\* "r": $(sel).text(), possibly trimmed or joined: a string, possibly empty.
SelKinds(branch) ==
    CASE branch = "amazon" ->
           [productName |-> <<"t","t","t","r">>, brand |-> <<"t","t","t","t">>,
            price |-> <<"t","t","t","t","t","t">>, image |-> <<"t","t","t","t">>]
      [] branch = "flipkart" ->
           [productName |-> <<"t","t","r">>, brand |-> <<"t","r">>,
            price |-> <<"t","r","r","t">>, image |-> <<"t","t","t">>]
      [] branch = "myntra" ->
           [productName |-> <<"r","t","r">>, brand |-> <<"t">>,
            price |-> <<"t","t","r","t">>, image |-> <<"t","t">>]
      [] branch = "nykaa" ->
           [productName |-> <<"t","t","t","r">>, brand |-> <<"t","t","r">>,
            price |-> <<"t","t","t">>, image |-> <<"t","t">>]
      [] branch = "bigbasket" ->
           [productName |-> <<"t","t","t","r">>, brand |-> <<"t","r">>,
            price |-> <<"t","t","t">>, image |-> <<"t","t">>]
      [] OTHER ->
           [productName |-> <<>>, brand |-> <<>>, price |-> <<>>, image |-> <<>>]

\* x ||= c1 || ... || cn   (no chain in the branch: x is left alone)
OrAssign(x, cands) ==
    IF cands = <<>> THEN x ELSE IF Truthy(x) THEN x ELSE OrChain(cands)

\* the fields pulled from the first Product node (NoNode: none found)
NoNode == [absent |-> TRUE]

ldName(node)  == IF node = NoNode THEN Null ELSE Or(node.name, Null)
\* typeof brand === "string" ? brand : brand?.name || null
ldBrand(node) == IF node = NoNode THEN Null ELSE node.brand
ldImage(node) == IF node = NoNode THEN Null ELSE Or(node.image, Null)
\* if (offers) price ||= offers.price || null
ldPrice(node) == IF node = NoNode THEN Null ELSE Or(node.price, Null)

extractFromHtml(page, finalUrl) ==
    LET host == toLowerCase(finalUrl.hostname)
        br   == BranchOf(host)
        sel  == SelKinds(br)
        use(f) == IF sel[f] = <<>> THEN <<>> ELSE page[f]
        name0 == OrAssign(ldName(page.node), use("productName"))
        name  == IF br = "amazon" THEN stripAmazonTag(name0) ELSE name0
    IN  [platform |-> platformFromHost(host),
         url |-> finalUrl,
         productName |-> name,
         brand |-> OrAssign(ldBrand(page.node), use("brand")),
         price |-> normalizePrice(OrAssign(ldPrice(page.node), use("price"))),
         image |-> OrAssign(ldImage(page.node), use("image"))]

(***************************************************************************)
(* 4.4 Browser extraction: the fields read from the rendered page          *)
(***************************************************************************)
\* x ||= (await locator.first().textContent().catch(() => null))?.trim() || null
LocText(x, found) ==
    IF Truthy(x) THEN x
    ELSE IF found.t = "str" THEN Or(Str(trim(found.v)), Null) ELSE Null

\* image ||= await locator.first().getAttribute("src").catch(() => null)
LocAttr(x, found) == IF Truthy(x) THEN x ELSE found

browserRecord(view, finalUrl) ==
    LET finalHost == toLowerCase(finalUrl.hostname)
        br    == BranchOf(finalHost)
        prod  == view.node
        name0 == ldName(prod)
        brand0 == ldBrand(prod)
        name1 == IF br = "none" THEN name0 ELSE LocText(name0, view.productName)
        name  == IF br = "amazon" THEN stripAmazonTag(name1) ELSE name1
    IN  [platform |-> platformFromHost(finalHost),
         url |-> finalUrl,
         productName |-> name,
         brand |-> IF br = "none" THEN brand0 ELSE LocText(brand0, view.brand),
         price |-> normalizePrice(IF br = "none" THEN ldPrice(prod)
                                  ELSE LocText(ldPrice(prod), view.price)),
         image |-> IF br = "none" THEN ldImage(prod)
                   ELSE LocAttr(ldImage(prod), view.image)]

(***************************************************************************)
(* Page contents fed to the extractors                                     *)
(***************************************************************************)
Node(n, b, i, p) == [name |-> n, brand |-> b, image |-> i, price |-> p]

\* Product nodes: none, a full one, and nodes with empty or zero fields
Nodes == {NoNode,
          Node(Str(NAME_LD), Str(BRAND_LD), Str(IMG_LD), Num(499, 0)),
          Node(Str(<<>>), Str(<<>>), Null, Null),
          Node(Null, Null, Null, Str(PRICE_ZERO)),
          Node(Null, Null, Null, Num(0, 0))}

Miss(kind) == IF kind = "t" THEN Null ELSE Str(<<>>)

\* what the candidates of one chain evaluate to: nothing matches, only the
\* first matches (v), only the last matches (w), or both do
CandSeqs(kinds, v, ws) ==
    IF kinds = <<>> THEN {<<>>}
    ELSE LET n == Len(kinds)
             none == [k \in 1..n |-> Miss(kinds[k])]
         IN  {none, [none EXCEPT ![1] = Str(v)]}
             \cup {[none EXCEPT ![n] = Str(w)] : w \in ws}
             \cup {[[none EXCEPT ![1] = Str(v)] EXCEPT ![n] = Str(w)] : w \in ws}

Pages(host) ==
    LET sel == SelKinds(BranchOf(host))
    IN  {[node |-> nd, productName |-> cn, brand |-> cb, price |-> cp, image |-> ci] :
            nd \in Nodes,
            cn \in CandSeqs(sel.productName, NAME_A, {NAME_TITLE}),
            cb \in CandSeqs(sel.brand, BRAND_A, {BRAND_A}),
            cp \in CandSeqs(sel.price, PRICE_PLAIN, {PRICE_NA}),
            ci \in CandSeqs(sel.image, IMG_A, {IMG_A})}

\* what the locators of the browser path return (null: nothing matched)
Views ==
    {[node |-> nd, productName |-> n, brand |-> b, price |-> p, image |-> i] :
        nd \in Nodes,
        n \in {Null, Str(NAME_A)},
        b \in {Null, Str(<<" ">>)},
        p \in {Null, Str(PRICE_PLAIN), Str(PRICE_NA)},
        i \in {Null, Str(<<>>), Str(IMG_A)}}

(***************************************************************************)
(* The bot-challenge pattern of tryHtml                                    *)
(***************************************************************************)
\* \s of the regexp engine, on the characters used here
IsSpace(c) == c \in {" ", "\n", "\t"}

W_ROBOT     == <<"r","o","b","o","t">>
W_CAPTCHA   == <<"c","a","p","t","c","h","a">>
W_UNUSUAL   == <<"u","n","u","s","u","a","l">>
W_TRAFFIC   == <<"t","r","a","f","f","i","c">>
W_AUTOMATED == <<"a","u","t","o","m","a","t","e","d">>
W_ACCESS    == <<"a","c","c","e","s","s">>

\* /w1\s+w2/i matches somewhere in s
TwoWords(w1, w2, s) ==
    \E p \in 1..Len(s), k \in 1..Len(s) :
        /\ LitAt(w1, s, p)
        /\ \A j \in 0..(k - 1) :
              p + Len(w1) + j <= Len(s) /\ IsSpace(s[p + Len(w1) + j])
        /\ LitAt(w2, s, p + Len(w1) + k)

\* /w/i matches somewhere in s
OneWord(w, s) == \E p \in 1..Len(s) : LitAt(w, s, p)

\* /robot|captcha|unusual\s+traffic|automated\s+access/i.test(html)
botTest(html) ==
    \/ OneWord(W_ROBOT, html)
    \/ OneWord(W_CAPTCHA, html)
    \/ TwoWords(W_UNUSUAL, W_TRAFFIC, html)
    \/ TwoWords(W_AUTOMATED, W_ACCESS, html)

T_PLAIN     == <<"t","e","a">>
T_CAPTCHA   == <<"a"," ","C","A","P","T","C","H","A","!">>
T_UNUSUAL   == <<"U","n","u","s","u","a","l"," ","t","r","a","f","f","i","c">>
T_UNUSUAL_NL == <<"u","n","u","s","u","a","l","\n"," ","t","r","a","f","f","i","c">>
T_AUTOMATED == <<"a","u","t","o","m","a","t","e","d"," ","a","c","c","e","s","s",".">>
T_ROBOTS    == <<"r","o","b","o","t","s">>
T_NEAR      == <<"u","n","u","s","u","a","l","t","r","a","f","f","i","c">>

\* response bodies that carry (or nearly carry) a challenge phrase
ChallengeTexts == {T_CAPTCHA, T_UNUSUAL, T_UNUSUAL_NL, T_AUTOMATED, T_ROBOTS}

(***************************************************************************)
(* 4.2 Extraction Strategy Controller: GET /api/product-info               *)
(***************************************************************************)
NoResp == [status |-> 0, error |-> "", data |-> Null]
Json(data) == [status |-> 200, error |-> "", data |-> data]
Err(status, msg) == [status |-> status, error |-> msg, data |-> Null]

NoOut == [kind |-> "none", msg |-> "", data |-> Null]
Threw(msg) == [kind |-> "threw", msg |-> msg, data |-> Null]
Value(d) == [kind |-> "value", msg |-> "", data |-> d]

\* a decision of the controller: go on at pc `next`, or send `resp`
Goto(next) == [next |-> next, resp |-> NoResp]
Send(r) == [next |-> IF r.status = 200 THEN "DONE" ELSE "FAILED", resp |-> r]

\* the guard applied to every mode but sandbox
guardRejectsButSandbox(u0, m) == m # "sandbox" /\ ~isAllowedHost(u0.hostname)

\* if (!isAllowedHost(u0.hostname)) return res.status(400)...
guardRejects(u0, m) == ~isAllowedHost(u0.hostname)

\* AUTO going to the browser without trying the direct fetch
dispatchBrowserFirst(m) ==
    IF m = "sandbox" THEN "SANDBOX"
    ELSE IF m = "html" THEN "HTML"
    ELSE "BROWSER"

\* the mode tests, in the order of the handler; anything else is AUTO
dispatch(m) ==
    IF m = "sandbox" THEN "SANDBOX"
    ELSE IF m = "html" THEN "HTML"
    ELSE IF m = "browser" THEN "BROWSER"
    ELSE "HTML"

\* the catch block of the handler
catchResponse(msg) == Err(500, msg)

\* an exception of tryHtml that makes AUTO go on to the browser
onHtmlThrowEscalating(m, msg) ==
    IF m = "html" THEN Send(catchResponse(msg)) ELSE Goto("BROWSER")

\* an exception of tryHtml: nothing between tryHtml and the catch block
onHtmlThrow(m, msg) == Send(catchResponse(msg))

FetchOutcome(kind, ok, url) == [kind |-> kind, ok |-> ok, url |-> url]

FetchOutcomes ==
    {FetchOutcome("abort", FALSE, EmptyUrl), FetchOutcome("neterr", FALSE, EmptyUrl)}
    \cup {FetchOutcome("resp", ok, u) : ok \in BOOLEAN, u \in LandingUrls \cup {EmptyUrl}}

\* tryHtml up to `await resp.text()`, without the test of the final host
tryHtmlHeadNoFinalCheck(out, inUrl) ==
    IF out.kind = "abort" THEN Threw("This operation was aborted")
    ELSE IF out.kind = "neterr" THEN Threw("fetch failed")
    ELSE IF ~out.ok THEN Threw("Upstream returned")
    ELSE Value(IF out.url # EmptyUrl THEN out.url ELSE inUrl)

\* tryHtml up to `await resp.text()`: Value(finalUrl) or the exception
tryHtmlHead(out, inUrl) ==
    IF out.kind = "abort" THEN Threw("This operation was aborted")
    ELSE IF out.kind = "neterr" THEN Threw("fetch failed")
    ELSE IF ~out.ok THEN Threw("Upstream returned")
    ELSE LET u == IF out.url # EmptyUrl THEN out.url ELSE inUrl
         IN  IF ~isAllowedHost(u.hostname)
             THEN Threw("Final domain not allowed")
             ELSE Value(u)

\* tryHtml from `await resp.text()` on
\* a bot-challenge page raising an exception instead of yielding null
tryHtmlBodyThrowing(body, finalUrl) ==
    IF body.kind = "fail" THEN Threw("terminated")
    ELSE IF botTest(body.text) THEN Threw("robot/captcha detected")
    ELSE Value(extractFromHtml(body.page, finalUrl))

tryHtmlBody(body, finalUrl) ==
    IF body.kind = "fail" THEN Threw("terminated")
    ELSE IF botTest(body.text) THEN Value(Null)
    ELSE Value(extractFromHtml(body.page, finalUrl))

\* AUTO escalating only on a null result
afterHtmlNullOnly(m, data) ==
    IF m = "html"
    THEN IF data = Null \/ ~minimalOk(data)
         THEN Send(Err(451, "Extraction incomplete (html)."))
         ELSE Send(Json(data))
    ELSE IF data = Null THEN Goto("BROWSER") ELSE Send(Json(data))

\* html mode escalating like AUTO
afterHtmlAlwaysEscalating(m, data) ==
    IF data = Null \/ ~minimalOk(data) THEN Goto("BROWSER") ELSE Send(Json(data))

\* escalation for the mode named "auto" only, any other value ending like html
afterHtmlAutoByName(m, data) ==
    IF m # "auto"
    THEN IF data = Null \/ ~minimalOk(data)
         THEN Send(Err(451, "Extraction incomplete (html)."))
         ELSE Send(Json(data))
    ELSE IF data = Null \/ ~minimalOk(data)
         THEN Goto("BROWSER")
         ELSE Send(Json(data))

\* the code after `await tryHtml()` in html mode and in AUTO
afterHtml(m, data) ==
    IF m = "html"
    THEN IF data = Null \/ ~minimalOk(data)
         THEN Send(Err(451, "Extraction incomplete (html)."))
         ELSE Send(Json(data))
    ELSE IF data = Null \/ ~minimalOk(data)
         THEN Goto("BROWSER")
         ELSE Send(Json(data))

\* the code after `await extractWithBrowser(inputUrl)` in browser mode and AUTO
afterBrowser(m, data) ==
    IF ~minimalOk(data)
    THEN Send(Err(451, IF m = "browser" THEN "Extraction incomplete (browser)."
                       ELSE "Could not extract product details (auto)."))
    ELSE Send(Json(data))

\* a try block whose cleanup runs on normal completion only
leaveTryNoFinally(pend) == IF pend # "" THEN "BR_RETURN" ELSE "BR_FINALLY"

\* try { ... } finally { await browser.close().catch(() => {}) }: every way
\* out of the try block goes through the finally block
leaveTry(pend) == "BR_FINALLY"

\* if (!isAllowedHost(finalHost)) throw new Error(`Final domain not allowed..`)
browserFinalRejects(finalUrl) == ~isAllowedHost(toLowerCase(finalUrl.hostname))

GotoOutcomes ==
    {FetchOutcome("timeout", FALSE, EmptyUrl), FetchOutcome("neterr", FALSE, EmptyUrl)}
    \cup {FetchOutcome("page", TRUE, u) : u \in LandingUrls}

\* a page whose Product node is complete and whose selectors match nothing
FullPage(host) ==
    LET sel == SelKinds(BranchOf(host))
        none(f) == [k \in 1..Len(sel[f]) |-> Miss(sel[f][k])]
    IN  [node |-> Node(Str(NAME_LD), Str(BRAND_LD), Str(IMG_LD), Num(499, 0)),
         productName |-> none("productName"), brand |-> none("brand"),
         price |-> none("price"), image |-> none("image")]

\* what resp.text() settles to: a failure, a challenge page, a page whose
\* text only resembles a challenge phrase, or an ordinary page
Bodies(finalUrl) ==
    LET host == toLowerCase(finalUrl.hostname)
    IN  {[kind |-> "fail", text |-> <<>>, page |-> FullPage(host)]}
        \cup {[kind |-> "text", text |-> tx, page |-> FullPage(host)] :
                 tx \in ChallengeTexts \cup {T_NEAR}}
        \cup {[kind |-> "text", text |-> T_PLAIN, page |-> pg] : pg \in Pages(host)}

(***************************************************************************)
(* The handler, one action per stretch between two awaits                  *)
(***************************************************************************)
NoBody == [kind |-> "none", text |-> <<>>]

\* the requests the server has in hand at one time
ReqIds == {1, 2}

\* the locals of a handler that has not started
StartLocals(id) ==
    [me |-> id, pc |-> "START", mode |-> "", inputUrl |-> EmptyUrl, resp |-> NoResp,
     sent |-> 0, landed |-> EmptyUrl, startUrl |-> EmptyUrl, bodyRead |-> NoBody,
     htmlOut |-> NoOut, brOut |-> NoOut, browser |-> "none", pending |-> "",
     finalChecked |-> FALSE, nFetch |-> 0, nLaunch |-> 0, nGoto |-> 0, nQuery |-> 0,
     nFixture |-> 0]

\* the locals of the handler that is running
Running ==
    [me |-> conc.me, pc |-> pc, mode |-> mode, inputUrl |-> inputUrl, resp |-> resp,
     sent |-> sent, landed |-> landed, startUrl |-> startUrl, bodyRead |-> bodyRead,
     htmlOut |-> htmlOut, brOut |-> brOut, browser |-> browser, pending |-> pending,
     finalChecked |-> finalChecked, nFetch |-> nFetch, nLaunch |-> nLaunch,
     nGoto |-> nGoto, nQuery |-> nQuery, nFixture |-> nFixture]

\* one browser kept by the module and used by every request
launchSessionShared(me) == 1

\* const browser = await chromium.launch(...): a session of this call alone
launchSession(me) == me

InitReq ==
    /\ pc = "START"
    /\ sessions = [id \in ReqIds |-> "none"]
    /\ conc = [me |-> 1, parked |-> StartLocals(2)]
    /\ mode = ""
    /\ inputUrl = EmptyUrl
    /\ resp = NoResp
    /\ sent = 0
    /\ landed = EmptyUrl
    /\ startUrl = EmptyUrl
    /\ bodyRead = NoBody
    /\ htmlOut = NoOut
    /\ brOut = NoOut
    /\ browser = "none"
    /\ pending = ""
    /\ finalChecked = FALSE
    /\ nFetch = 0
    /\ nLaunch = 0
    /\ nGoto = 0
    /\ nQuery = 0
    /\ nFixture = 0
    /\ fixtures = InitialFixtures

\* the pure-function harness, idle
InitFn ==
    /\ fn = ""
    /\ arg = <<>>
    /\ ret = FALSE

\* no sandbox URL has been answered yet
InitServed == served = [u \in Urls |-> NoResp]

\* no credentials, no preference order
NoCfg == [genAI |-> FALSE, visionClient |-> FALSE, order |-> <<>>]

NoOcrOut == [text |-> <<>>, confidence |-> 0]

\* no OCR request yet
OcrIdle == [pc |-> "IDLE", provider |-> "", caller |-> "", base |-> NoOcrOut,
            calls |-> <<>>, resp |-> NoResp]

\* no barcode lookup yet
BcIdle == [pc |-> "IDLE", barcode |-> <<>>, reply |-> [kind |-> "none"],
           result |-> NoOut, route |-> FALSE, calls |-> 0, resp |-> NoResp]

InitSvc ==
    /\ cfg = NoCfg
    /\ ocr = OcrIdle
    /\ bc = BcIdle

Init == InitReq /\ InitFn /\ InitServed /\ InitSvc

\* carry out a decision of the controller
Do(d) ==
    /\ pc' = d.next
    /\ IF d.resp = NoResp
       THEN UNCHANGED <<resp, sent>>
       ELSE resp' = d.resp /\ sent' = sent + 1

\* a request arrives: url parsed, mode = String(req.query.mode || "auto")
Request(u, m) ==
    /\ pc = "START"
    /\ inputUrl' = u
    /\ mode' = m
    /\ pc' = "GUARD"
    /\ UNCHANGED <<resp, sent, landed, startUrl, htmlOut, brOut, browser, pending,
                   finalChecked, nFetch, nLaunch, nGoto, nQuery, nFixture>>
    /\ UNCHANGED bodyRead
    /\ UNCHANGED fixtures
    /\ UNCHANGED sessions
    /\ UNCHANGED otherVars

Guard ==
    /\ pc = "GUARD"
    /\ IF guardRejects(inputUrl, mode)
       THEN Do(Send(Err(400, "Domain not allowed")))
       ELSE Do(Goto(dispatch(mode)))
    /\ UNCHANGED <<mode, inputUrl, landed, startUrl, htmlOut, brOut, browser, pending,
                   finalChecked, nFetch, nLaunch, nGoto, nQuery, nFixture>>
    /\ UNCHANGED bodyRead
    /\ UNCHANGED fixtures
    /\ UNCHANGED sessions
    /\ UNCHANGED otherVars

\* a sandbox request that takes the fixture it serves out of the table
SandboxConsuming ==
    /\ pc = "SANDBOX"
    /\ nFixture' = nFixture + 1
    /\ LET data == sandboxLookup(inputUrl)
           info == extractSandboxKey(inputUrl)
       IN  IF data = Null
           THEN /\ Do(Send(Err(404, "Sandbox has no fixture for this URL/ID.")))
                /\ UNCHANGED fixtures
           ELSE /\ Do(Send(Json(data)))
                /\ fixtures' = [fixtures EXCEPT ![<<info.vendor, info.key>>] = Null]
    /\ UNCHANGED <<mode, inputUrl, landed, startUrl, htmlOut, brOut, browser, pending,
                   finalChecked, nFetch, nLaunch, nGoto, nQuery>>
    /\ UNCHANGED bodyRead
    /\ UNCHANGED sessions
    /\ UNCHANGED otherVars

\* mode === "sandbox": sandboxLookup, 404 when it finds nothing
Sandbox ==
    /\ pc = "SANDBOX"
    /\ nFixture' = nFixture + 1
    /\ LET data == sandboxLookup(inputUrl)
       IN  IF data = Null
           THEN Do(Send(Err(404, "Sandbox has no fixture for this URL/ID.")))
           ELSE Do(Send(Json(data)))
    /\ UNCHANGED <<mode, inputUrl, landed, startUrl, htmlOut, brOut, browser, pending,
                   finalChecked, nFetch, nLaunch, nGoto, nQuery>>
    /\ UNCHANGED bodyRead
    /\ UNCHANGED fixtures
    /\ UNCHANGED sessions
    /\ UNCHANGED otherVars

\* tryHtml: fetchWithTimeout settles, resp.ok and the final host are tested
HtmlFetch ==
    /\ pc = "HTML"
    /\ nFetch' = nFetch + 1
    /\ \E out \in FetchOutcomes :
          LET r == tryHtmlHead(out, inputUrl)
          IN  IF r.kind = "threw"
              THEN /\ htmlOut' = r
                   /\ Do(onHtmlThrow(mode, r.msg))
                   /\ UNCHANGED landed
              ELSE /\ landed' = r.data
                   /\ pc' = "HTML_BODY"
                   /\ UNCHANGED <<htmlOut, resp, sent>>
    /\ UNCHANGED <<mode, inputUrl, startUrl, brOut, browser, pending, finalChecked,
                   nLaunch, nGoto, nQuery, nFixture>>
    /\ UNCHANGED bodyRead
    /\ UNCHANGED fixtures
    /\ UNCHANGED sessions
    /\ UNCHANGED otherVars

\* tryHtml: resp.text() settles; then the code after `await tryHtml()`
HtmlBody ==
    /\ pc = "HTML_BODY"
    /\ \E body \in Bodies(landed) :
          LET r == tryHtmlBody(body, landed)
          IN  /\ bodyRead' = [kind |-> body.kind, text |-> body.text]
              /\ htmlOut' = r
              /\ IF r.kind = "threw"
                 THEN Do(onHtmlThrow(mode, r.msg))
                 ELSE Do(afterHtml(mode, r.data))
    /\ UNCHANGED <<mode, inputUrl, landed, startUrl, brOut, browser, pending,
                   finalChecked, nFetch, nLaunch, nGoto, nQuery, nFixture>>
    /\ UNCHANGED fixtures
    /\ UNCHANGED sessions
    /\ UNCHANGED otherVars

\* extractWithBrowser: chromium.launch settles (outside the try block)
BrowserLaunch ==
    /\ pc = "BROWSER"
    /\ nLaunch' = nLaunch + 1
    /\ startUrl' = inputUrl
    /\ \E ok \in BOOLEAN :
          IF ok
          THEN /\ browser' = "open"
               /\ sessions' = [sessions EXCEPT ![launchSession(conc.me)] = "open"]
               /\ pc' = "BR_CONTEXT"
               /\ UNCHANGED <<brOut, resp, sent>>
          ELSE /\ brOut' = Threw("browserType.launch failed")
               /\ Do(Send(catchResponse("browserType.launch failed")))
               /\ UNCHANGED <<browser, sessions>>
    /\ UNCHANGED <<mode, inputUrl, landed, htmlOut, pending, finalChecked,
                   nFetch, nGoto, nQuery, nFixture>>
    /\ UNCHANGED bodyRead
    /\ UNCHANGED fixtures
    /\ UNCHANGED otherVars

\* browser.newContext and context.newPage settle
BrContext ==
    /\ pc = "BR_CONTEXT"
    /\ \E ok \in BOOLEAN :
          IF ok
          THEN pc' = "BR_GOTO" /\ UNCHANGED pending
          ELSE pending' = "newContext failed" /\ pc' = leaveTry(pending')
    /\ UNCHANGED <<mode, inputUrl, resp, sent, landed, startUrl, htmlOut, brOut, browser,
                   finalChecked, nFetch, nLaunch, nGoto, nQuery, nFixture>>
    /\ UNCHANGED bodyRead
    /\ UNCHANGED fixtures
    /\ UNCHANGED sessions
    /\ UNCHANGED otherVars

\* page.goto(startUrl, {timeout: 30000}), the settle delay, page.url() and
\* the test of the final host
BrGoto ==
    /\ pc = "BR_GOTO"
    /\ nGoto' = nGoto + 1
    /\ \E out \in GotoOutcomes :
          IF out.kind = "timeout"
          THEN /\ pending' = "Timeout 30000ms exceeded"
               /\ pc' = leaveTry(pending')
               /\ UNCHANGED <<landed, finalChecked>>
          ELSE IF out.kind = "neterr"
          THEN /\ pending' = "net::ERR"
               /\ pc' = leaveTry(pending')
               /\ UNCHANGED <<landed, finalChecked>>
          ELSE IF browserFinalRejects(out.url)
          THEN /\ pending' = "Final domain not allowed"
               /\ pc' = leaveTry(pending')
               /\ landed' = out.url
               /\ UNCHANGED finalChecked
          ELSE /\ landed' = out.url
               /\ finalChecked' = TRUE
               /\ pc' = "BR_EVAL"
               /\ UNCHANGED pending
    /\ UNCHANGED <<mode, inputUrl, resp, sent, startUrl, htmlOut, brOut, browser,
                   nFetch, nLaunch, nQuery, nFixture>>
    /\ UNCHANGED bodyRead
    /\ UNCHANGED fixtures
    /\ UNCHANGED sessions
    /\ UNCHANGED otherVars

\* page.evaluate and the locator reads; the record is built
BrEval ==
    /\ pc = "BR_EVAL"
    /\ nQuery' = nQuery + 1
    /\ \/ /\ pending' = "page.evaluate failed"
          /\ pc' = leaveTry(pending')
          /\ UNCHANGED brOut
       \/ \E view \in Views :
             /\ brOut' = Value(browserRecord(view, landed))
             /\ pc' = leaveTry(pending)
             /\ UNCHANGED pending
    /\ UNCHANGED <<mode, inputUrl, resp, sent, landed, startUrl, htmlOut, browser,
                   finalChecked, nFetch, nLaunch, nGoto, nFixture>>
    /\ UNCHANGED bodyRead
    /\ UNCHANGED fixtures
    /\ UNCHANGED sessions
    /\ UNCHANGED otherVars

\* finally { await browser.close().catch(() => {}) }: a rejection of close
\* is swallowed; the exception or the record then leaves the function
BrFinally ==
    /\ pc = "BR_FINALLY"
    /\ browser' = "closed"
    /\ sessions' = [sessions EXCEPT ![launchSession(conc.me)] = "closed"]
    /\ pc' = "BR_RETURN"
    /\ brOut' = IF pending # "" THEN Threw(pending) ELSE brOut
    /\ UNCHANGED <<mode, inputUrl, resp, sent, landed, startUrl, htmlOut, pending,
                   finalChecked, nFetch, nLaunch, nGoto, nQuery, nFixture>>
    /\ UNCHANGED bodyRead
    /\ UNCHANGED fixtures
    /\ UNCHANGED otherVars

\* back in the handler: the catch block, or the code after the await
BrReturn ==
    /\ pc = "BR_RETURN"
    /\ IF pending # ""
       THEN Do(Send(catchResponse(pending)))
       ELSE Do(afterBrowser(mode, brOut.data))
    /\ UNCHANGED <<mode, inputUrl, landed, startUrl, htmlOut, brOut, browser, pending,
                   finalChecked, nFetch, nLaunch, nGoto, nQuery, nFixture>>
    /\ UNCHANGED bodyRead
    /\ UNCHANGED fixtures
    /\ UNCHANGED sessions
    /\ UNCHANGED otherVars

Next ==
    \/ \E rq \in Requests : Request(rq[1], rq[2])
    \/ Guard
    \/ Sandbox
    \/ HtmlFetch
    \/ HtmlBody
    \/ BrowserLaunch
    \/ BrContext
    \/ BrGoto
    \/ BrEval
    \/ BrFinally
    \/ BrReturn

Spec == Init /\ [][Next]_vars

(***************************************************************************)
(* Regular expressions: a backtracking matcher.  M lists the ways a node   *)
(* can match at a position, in the order the engine tries them, so the     *)
(* head of the list is the match the engine reports.                       *)
(***************************************************************************)
Lit(w) == [t |-> "lit", w |-> w]
Cls(S) == [t |-> "cls", neg |-> FALSE, cs |-> S]
NCls(S) == [t |-> "cls", neg |-> TRUE, cs |-> S]
Cat(rs) == [t |-> "cat", rs |-> rs]
Alt(rs) == [t |-> "alt", rs |-> rs]
\* ^ and $ without the m flag: the start and the end of the input
Bol == [t |-> "bol"]
Eol == [t |-> "eol"]
\* r{min,max}, greedy; max = -1 is no upper limit
Rep(r, min, max) == [t |-> "rep", r |-> r, min |-> min, max |-> max]
Grp(n, r) == [t |-> "grp", n |-> n, r |-> r]

Star(r) == Rep(r, 0, -1)
Plus(r) == Rep(r, 1, -1)
Opt(r) == Rep(r, 0, 1)

\* no pattern of the program has more than two capture groups
NoCaps == <<<<0, 0>>, <<0, 0>>>>

\* the concatenation of a sequence of sequences
RECURSIVE Flatten(_)
Flatten(ss) == IF ss = <<>> THEN <<>> ELSE Head(ss) \o Flatten(Tail(ss))

ExactAt(w, s, p) ==
    /\ p + Len(w) - 1 <= Len(s)
    /\ \A i \in 1..Len(w) : s[p + i - 1] = w[i]

\* how many characters from position i on belong to the class
RECURSIVE RunLength(_, _, _)
RunLength(cl, s, i) ==
    IF i <= Len(s) /\ ((s[i] \in cl.cs) # cl.neg)
    THEN 1 + RunLength(cl, s, i + 1) ELSE 0

\* a quantified class: the longest run first, then one character less, ...
MRun(r, s, i, caps) ==
    LET run == RunLength(r.r, s, i)
        hi == IF r.max = -1 \/ run < r.max THEN run ELSE r.max
    IN  IF hi < r.min THEN <<>>
        ELSE <<>> \o [k \in 1..(hi - r.min + 1) |-> [e |-> i + hi - (k - 1), c |-> caps]]

RECURSIVE M(_, _, _, _)
RECURSIVE MCat(_, _, _, _, _)
RECURSIVE MRep(_, _, _, _, _)

M(r, s, i, caps) ==
    CASE r.t = "lit" -> IF ExactAt(r.w, s, i)
                        THEN <<[e |-> i + Len(r.w), c |-> caps]>> ELSE <<>>
      [] r.t = "cls" -> IF i <= Len(s) /\ ((s[i] \in r.cs) # r.neg)
                        THEN <<[e |-> i + 1, c |-> caps]>> ELSE <<>>
      [] r.t = "cat" -> MCat(r.rs, 1, s, i, caps)
      [] r.t = "alt" -> Flatten([k \in 1..Len(r.rs) |-> M(r.rs[k], s, i, caps)])
      [] r.t = "rep" -> IF r.r.t = "cls" THEN MRun(r, s, i, caps)
                        ELSE MRep(r, 0, s, i, caps)
      [] r.t = "bol" -> IF i = 1 THEN <<[e |-> i, c |-> caps]>> ELSE <<>>
      [] r.t = "eol" -> IF i = Len(s) + 1 THEN <<[e |-> i, c |-> caps]>> ELSE <<>>
      [] r.t = "grp" -> LET os == M(r.r, s, i, caps)
                        IN  [k \in 1..Len(os) |->
                                [e |-> os[k].e,
                                 c |-> [os[k].c EXCEPT ![r.n] = <<i, os[k].e>>]]]

MCat(rs, k, s, i, caps) ==
    IF k > Len(rs) THEN <<[e |-> i, c |-> caps]>>
    ELSE LET os == M(rs[k], s, i, caps)
         IN  Flatten([j \in 1..Len(os) |-> MCat(rs, k + 1, s, os[j].e, os[j].c)])

\* n iterations done: one more where allowed (an iteration that matches
\* nothing is refused once min is reached), then the exit
MRep(r, n, s, i, caps) ==
    LET os == IF r.max = -1 \/ n < r.max THEN M(r.r, s, i, caps) ELSE <<>>
        more == Flatten([j \in 1..Len(os) |->
                           IF os[j].e > i \/ n < r.min
                           THEN MRep(r, n + 1, s, os[j].e, os[j].c) ELSE <<>>])
    IN  IF n >= r.min THEN more \o <<[e |-> i, c |-> caps]>> ELSE more

MatchesAt(r, s, p) == M(r, s, p, NoCaps) # <<>>

\* the match object: index, end and the captured groups
MatchOf(s, p, o) ==
    [t |-> "match", index |-> p, last |-> o.e,
     g |-> <<IF o.c[1] = <<0, 0>> THEN Undefined
             ELSE Str(SubSeq(s, o.c[1][1], o.c[1][2] - 1)),
             IF o.c[2] = <<0, 0>> THEN Undefined
             ELSE Str(SubSeq(s, o.c[2][1], o.c[2][2] - 1))>>]

\* the first way the pattern matches at p or further right, else null
RECURSIVE execFrom(_, _, _)
execFrom(r, s, p) ==
    IF p > Len(s) + 1 THEN Null
    ELSE LET os == M(r, s, p, NoCaps)
         IN  IF os = <<>> THEN execFrom(r, s, p + 1) ELSE MatchOf(s, p, os[1])

\* String.prototype.match with a pattern without the g flag
match(s, r) == execFrom(r, s, 1)

(***************************************************************************)
(* The Field Parser                                                        *)
(***************************************************************************)
\* U+20B9, one UTF-16 unit
RUPEE == "INR"

SpaceSet == {" ", "\n", "\t"}
DigitSet == {Digits[i] : i \in 1..Len(Digits)}
UpperSet == {UpperChars[i] : i \in 1..Len(UpperChars)}

toUpperCase(s) == <<>> \o [i \in 1..Len(s) |-> Canonicalize(s[i])]

\* s.replace(/\s+/g, " ")
RECURSIVE collapseSpaces(_)
collapseSpaces(s) ==
    IF s = <<>> THEN <<>>
    ELSE IF s[1] \in SpaceSet
         THEN IF Len(s) > 1 /\ s[2] \in SpaceSet
              THEN collapseSpaces(Tail(s))
              ELSE <<" ">> \o collapseSpaces(Tail(s))
         ELSE <<s[1]>> \o collapseSpaces(Tail(s))

D == Cls(DigitSet)
S == Cls(SpaceSet)
NotAlnum == NCls(UpperSet \cup DigitSet)

\* /(MRP|M\.R\.P)[^0-9]*([₹R]?\s?\d{1,3}(?:[ ,]?\d{3})*(?:\.\d{1,2})?)/
RE_MRP ==
    Cat(<<Grp(1, Alt(<<Lit(<<"M","R","P">>), Lit(<<"M",".","R",".","P">>)>>)),
          Star(NCls(DigitSet)),
          Grp(2, Cat(<<Opt(Cls({RUPEE, "R"})), Opt(S), Rep(D, 1, 3),
                       Star(Cat(<<Opt(Cls({" ", ","})), Rep(D, 3, 3)>>)),
                       Opt(Cat(<<Lit(<<".">>), Rep(D, 1, 2)>>))>>))>>)

\* /(?:NET\s*(?:QTY|QUANTITY|WT|WEIGHT)[^0-9A-Z]*)?(\d+(?:\.\d+)?\s?(?:ML|L|G|KG|GM))/
RE_NET ==
    Cat(<<Opt(Cat(<<Lit(<<"N","E","T">>), Star(S),
                    Alt(<<Lit(<<"Q","T","Y">>), Lit(<<"Q","U","A","N","T","I","T","Y">>), Lit(<<"W","T">>), Lit(<<"W","E","I","G","H","T">>)>>),
                    Star(NotAlnum)>>)),
          Grp(1, Cat(<<Plus(D), Opt(Cat(<<Lit(<<".">>), Plus(D)>>)), Opt(S),
                       Alt(<<Lit(<<"M","L">>), Lit(<<"L">>), Lit(<<"G">>), Lit(<<"K","G">>), Lit(<<"G","M">>)>>)>>))>>)

\* /BEST\s+BEFORE[^A-Z0-9]*([0-9]{1,2}\s*(?:MONTH|MONTHS|YEAR|YEARS)|\d+\s*DAYS)/
RE_BEST ==
    Cat(<<Lit(<<"B","E","S","T">>), Plus(S), Lit(<<"B","E","F","O","R","E">>), Star(NotAlnum),
          Grp(1, Alt(<<Cat(<<Rep(D, 1, 2), Star(S),
                             Alt(<<Lit(<<"M","O","N","T","H">>), Lit(<<"M","O","N","T","H","S">>), Lit(<<"Y","E","A","R">>), Lit(<<"Y","E","A","R","S">>)>>)>>),
                       Cat(<<Plus(D), Star(S), Lit(<<"D","A","Y","S">>)>>)>>))>>)

\* /COUNTRY\s+OF\s+ORIGIN[^A-Z0-9]*([A-Z]+)/
RE_ORIGIN ==
    Cat(<<Lit(<<"C","O","U","N","T","R","Y">>), Plus(S), Lit(<<"O","F">>), Plus(S), Lit(<<"O","R","I","G","I","N">>), Star(NotAlnum),
          Grp(1, Plus(Cls(UpperSet)))>>)

\* /(?:MFD\s+BY|MANUFACTURER|MFRD\s+BY|MFG\s+BY)[^A-Z0-9]*([A-Z0-9&\-\., ]{6,})/
RE_MANU ==
    Cat(<<Alt(<<Cat(<<Lit(<<"M","F","D">>), Plus(S), Lit(<<"B","Y">>)>>), Lit(<<"M","A","N","U","F","A","C","T","U","R","E","R">>),
                Cat(<<Lit(<<"M","F","R","D">>), Plus(S), Lit(<<"B","Y">>)>>), Cat(<<Lit(<<"M","F","G">>), Plus(S), Lit(<<"B","Y">>)>>)>>),
          Star(NotAlnum),
          Grp(1, Rep(Cls(UpperSet \cup DigitSet \cup {"&", "-", ".", ",", " "}), 6, -1))>>)

\* /(?:CONSUMER\s*CARE|CUSTOMER\s*CARE)[^0-9]*(\d{3,}[-\s]?\d{3,}[-\s]?\d{3,}|\d{10,})/
RE_CARE ==
    Cat(<<Alt(<<Cat(<<Lit(<<"C","O","N","S","U","M","E","R">>), Star(S), Lit(<<"C","A","R","E">>)>>),
                Cat(<<Lit(<<"C","U","S","T","O","M","E","R">>), Star(S), Lit(<<"C","A","R","E">>)>>)>>),
          Star(NCls(DigitSet)),
          Grp(1, Alt(<<Cat(<<Rep(D, 3, -1), Opt(Cls({"-"} \cup SpaceSet)),
                             Rep(D, 3, -1), Opt(Cls({"-"} \cup SpaceSet)),
                             Rep(D, 3, -1)>>),
                       Rep(D, 10, -1)>>))>>)

\* /([A-Z][A-Z0-9 \-\+]{6,})\s*(?:HONEY|TEA|OIL|RICE|BISCUIT|MILK|JUICE|POWDER)?/
RE_NAME ==
    Cat(<<Grp(1, Cat(<<Cls(UpperSet),
                       Rep(Cls(UpperSet \cup DigitSet \cup {" ", "-", "+"}), 6, -1)>>)),
          Star(S),
          Opt(Alt(<<Lit(<<"H","O","N","E","Y">>), Lit(<<"T","E","A">>), Lit(<<"O","I","L">>), Lit(<<"R","I","C","E">>), Lit(<<"B","I","S","C","U","I","T">>), Lit(<<"M","I","L","K">>),
                    Lit(<<"J","U","I","C","E">>), Lit(<<"P","O","W","D","E","R">>)>>))>>)

\* fixed weights of the slots
W_NAME == 80
W_NET == 85
W_MRP == 85
W_MANU == 70
W_ORIGIN == 70
W_CARE == 70
W_BEST == 65

\* m?.[n]
groupOf(m, n) == IF m = Null THEN Undefined ELSE m.g[n]

\* m?.[n]?.trim()
trimmedGroupOf(m, n) ==
    IF groupOf(m, n) = Undefined THEN Undefined ELSE Str(trim(groupOf(m, n).v))

\* a slot that reports no confidence when its pattern missed
slotZeroOnMiss(txt, weight, m) ==
    [text |-> Or(txt, Null), confidence |-> IF m # Null THEN weight ELSE 0,
     compliant |-> m # Null]

\* a slot that has no text key when its pattern missed
slotNoTextOnMiss(txt, weight, m) ==
    IF m = Null THEN [confidence |-> weight, compliant |-> FALSE]
    ELSE [text |-> Or(txt, Null), confidence |-> weight, compliant |-> TRUE]

\* a slot reported compliant whether or not its pattern matched
slotAlwaysCompliant(txt, weight, m) ==
    [text |-> Or(txt, Null), confidence |-> weight, compliant |-> TRUE]

\* { text: txt || null, confidence: weight, compliant: !!m }
slot(txt, weight, m) ==
    [text |-> Or(txt, Null), confidence |-> weight, compliant |-> m # Null]

\* fullText: a string value or null
parseFields(fullText) ==
    LET text == toUpperCase(collapseSpaces(Or(fullText, Str(<<>>)).v))
        mMrp == match(text, RE_MRP)
        mNet == match(text, RE_NET)
        mBest == match(text, RE_BEST)
        mOrigin == match(text, RE_ORIGIN)
        mManu == match(text, RE_MANU)
        mCare == match(text, RE_CARE)
        mName == match(text, RE_NAME)
    IN  [productName |-> slot(groupOf(mName, 1), W_NAME, mName),
         netQuantity |-> slot(groupOf(mNet, 1), W_NET, mNet),
         mrp |-> slot(groupOf(mMrp, 2), W_MRP, mMrp),
         manufacturer |-> slot(trimmedGroupOf(mManu, 1), W_MANU, mManu),
         countryOfOrigin |-> slot(groupOf(mOrigin, 1), W_ORIGIN, mOrigin),
         consumerCare |-> slot(groupOf(mCare, 1), W_CARE, mCare),
         bestBefore |-> slot(groupOf(mBest, 1), W_BEST, mBest)]

\* label texts: one piece per field, joined by a line break and a space
NET_NONE == <<>>
NET_QTY == <<"N","e","t"," ","Q","t","y"," ","2","5","0"," ","g">>
NET_WT == <<"N","E","T"," ","W","T",":"," ","1",".","5","K","G">>
NET_BARE == <<"Q","t","y"," ","2","5","0">>
BEST_NONE == <<>>
BEST_MONTHS == <<"B","E","S","T"," ","B","E","F","O","R","E"," ","1","2"," ","M","O",
      "N","T","H","S">>
BEST_YEARS == <<"B","e","s","t"," ","b","e","f","o","r","e"," ","2"," ","y","e","a",
      "r","s">>
BEST_DAYS == <<"B","E","S","T"," ","B","E","F","O","R","E",":"," ","9","0"," ","D",
      "A","Y","S">>
BEST_MONTH == <<"B","E","S","T"," ","B","E","F","O","R","E"," ","6"," ","M","O","N",
      "T","H">>
MRP_NONE == <<>>
MRP_RUPEE == <<"M","R","P"," ",RUPEE,"4","9","9",".","0","0">>
MRP_DOTTED == <<"M",".","R",".","P"," ","1",",","2","9","9">>
REST_NONE == <<>>
REST_ORIGIN == <<"C","o","u","n","t","r","y"," ","o","f"," ","O","r","i","g","i","n",
      ":"," ","I","n","d","i","a">>
REST_MANU == <<"M","F","D"," ","B","Y"," ","A","C","M","E"," ","F","O","O","D","S",
      " ","L","T","D">>
REST_CARE == <<"C","u","s","t","o","m","e","r"," ","c","a","r","e"," ","1","8","0",
      "0","-","1","2","3","-","4","5","6">>
\* a short maker's name: the capture has to take back the space before it
REST_MANU_SHORT == <<"M","f","g"," ","b","y",":"," ","A","&","B"," ",".">>
T_LABEL == <<"N","E","T"," ","Q","T","Y"," ","2","5","0"," ","G"," ",".",".",".",
      " ","B","E","S","T"," ","B","E","F","O","R","E"," ","1","2"," ",
      "M","O","N","T","H","S">>

NetParts == {NET_NONE, NET_QTY, NET_WT, NET_BARE}
BestParts == {BEST_NONE, BEST_MONTHS, BEST_YEARS, BEST_DAYS, BEST_MONTH}
MrpParts == {MRP_NONE, MRP_RUPEE, MRP_DOTTED}
RestParts == {REST_NONE, REST_ORIGIN, REST_MANU, REST_CARE, REST_MANU_SHORT}

Join(a, b) == IF a = <<>> THEN b ELSE IF b = <<>> THEN a ELSE a \o <<"\n", " ">> \o b

LabelTexts ==
    {Join(Join(n, b), Join(m, r)) :
        n \in NetParts, b \in BestParts, m \in MrpParts, r \in RestParts}
    \cup {T_LABEL}

\* the recognised text handed to the parser: null or a string
ParseInputs == {Null} \cup {Str(tx) : tx \in LabelTexts}

InitParse ==
    /\ InitReq
    /\ InitServed
    /\ InitSvc
    /\ fn = ""
    /\ arg \in ParseInputs
    /\ ret = FALSE

ApplyParseFields ==
    /\ fn = ""
    /\ fn' = "parseFields"
    /\ ret' = parseFields(arg)
    /\ UNCHANGED arg
    /\ UNCHANGED reqVars
    /\ UNCHANGED served
    /\ UNCHANGED svcVars

NextParse == ApplyParseFields

SpecParse == InitParse /\ [][NextParse]_vars

(***************************************************************************)
(* Provider selection                                                      *)
(***************************************************************************)
\* every provider name passes, credentials or not
okIgnoringCredentials(p) == p \in {"gemini", "vision", "tesseract", "hybrid"}

ok(p) ==
    \/ (p = "gemini" /\ cfg.genAI)
    \/ (p = "vision" /\ cfg.visionClient)
    \/ p = "tesseract"
    \/ p = "hybrid"

\* for (const p of availableEnvOrder || []) if (ok(p)) return p;  ("" = fell through)
RECURSIVE firstOk(_)
firstOk(order) ==
    IF order = <<>> THEN ""
    ELSE IF ok(Head(order)) THEN Head(order) ELSE firstOk(Tail(order))

pickProvider(explicit, availableEnvOrder) ==
    IF explicit # "" THEN explicit
    ELSE IF firstOk(availableEnvOrder) # "" THEN firstOk(availableEnvOrder)
    ELSE IF cfg.genAI THEN "gemini"
    ELSE "tesseract"

\* OCR_PROVIDERS after toLowerCase, split, trim and filter(Boolean)
Orders == {<<>>, <<"vision">>, <<"foo">>, <<"gemini", "tesseract">>,
           <<"vision", "gemini">>, <<"hybrid", "vision">>,
           <<"tesseract", "gemini">>, <<"foo", "vision", "tesseract">>}

Cfgs == [genAI : BOOLEAN, visionClient : BOOLEAN, order : Orders]

\* req.query.provider || req.body?.provider || "", lower-cased
Requested == {"", "vision", "gemini", "hybrid", "tesseract", "bogus"}

InitPick ==
    /\ InitReq
    /\ InitServed
    /\ cfg \in Cfgs
    /\ ocr = OcrIdle
    /\ bc = BcIdle
    /\ fn = ""
    /\ arg \in Requested
    /\ ret = ""

ApplyPickProvider ==
    /\ fn = ""
    /\ fn' = "pickProvider"
    /\ ret' = pickProvider(arg, cfg.order)
    /\ UNCHANGED arg
    /\ UNCHANGED reqVars
    /\ UNCHANGED served
    /\ UNCHANGED svcVars

NextPick == ApplyPickProvider

SpecPick == InitPick /\ [][NextPick]_vars

(***************************************************************************)
(* POST /api/ocr: one action per stretch of the handler between two awaits *)
(* (the reply of the awaited call, then the code up to the next await).    *)
(***************************************************************************)
OCR_RAW == <<"M","R","P"," ","1","O">>
OCR_LOCAL == <<"M","R","P"," ","I","0">>
OCR_CLEAN == <<"M","R","P"," ","1","0">>
OCR_BLANK == <<" "," ">>

\* confidences reported by the two base layers
CONF_VISION == 90
CONF_LOCAL == 60

\* a call of a recognizer: pending, then answered ("yes") or failed ("no")
Call(api) == [api |-> api, ok |-> "pending", text |-> <<>>, confidence |-> 0]

Answered(calls, out) ==
    [calls EXCEPT ![Len(calls)] =
        [@ EXCEPT !.ok = "yes", !.text = out.text, !.confidence = out.confidence]]

Failed(calls) == [calls EXCEPT ![Len(calls)] = [@ EXCEPT !.ok = "no"]]

OcrFail(o, status, msg) == [o EXCEPT !.pc = "DONE", !.resp = Err(status, msg)]

\* fullText = out.text || "", parseFields, res.json
OcrFinish(o, out) ==
    [o EXCEPT !.pc = "DONE",
              !.resp = Json([provider |-> o.provider,
                             confidence |-> out.confidence,
                             text |-> out.text,
                             detectedFields |-> parseFields(Str(out.text))])]

\* a cleanup that reports no confidence of its own layer
hybridResultZeroConfidence(cleaned, base) == [text |-> cleaned, confidence |-> 0]

\* { text: cleaned, confidence: base.confidence }
hybridResult(cleaned, base) == [text |-> cleaned, confidence |-> base.confidence]

\* runHybrid once base is known: return it, or ask the generative model
afterBase(o, base) ==
    IF ~cfg.genAI THEN OcrFinish(o, base)
    ELSE [o EXCEPT !.pc = "CLEAN_WAIT", !.base = base,
                   !.calls = Append(@, Call("gemini"))]

\* runHybrid up to its first await: runVision throws at once without a client
startHybrid(o) ==
    IF ~cfg.visionClient
    THEN [o EXCEPT !.pc = "TESS_WAIT", !.caller = "hybrid",
                   !.calls = Append(@, Call("tesseract"))]
    ELSE [o EXCEPT !.pc = "VISION_WAIT", !.caller = "hybrid",
                   !.calls = Append(@, Call("vision"))]

\* the provider switch of the route, up to the first await of the provider
startProvider(o) ==
    CASE o.provider = "vision" ->
            IF ~cfg.visionClient
            THEN OcrFail(o, 500, "Google Vision isn't configured")
            ELSE [o EXCEPT !.pc = "VISION_WAIT", !.caller = "route",
                           !.calls = Append(@, Call("vision"))]
      [] o.provider = "gemini" ->
            IF ~cfg.genAI
            THEN OcrFail(o, 500, "Gemini API not configured")
            ELSE [o EXCEPT !.pc = "GEMINI_WAIT", !.caller = "route",
                           !.calls = Append(@, Call("gemini"))]
      [] o.provider = "hybrid" -> startHybrid(o)
      [] OTHER ->
            [o EXCEPT !.pc = "TESS_WAIT", !.caller = "route",
                      !.calls = Append(@, Call("tesseract"))]

ImageSources == {"file", "url", "none"}

\* the request arrives: provider picked, image taken from the upload or
\* fetched from the url
OcrRequest(requested, src) ==
    /\ ocr.pc = "IDLE"
    /\ LET o == [ocr EXCEPT !.provider = pickProvider(requested, cfg.order)]
       IN  ocr' = CASE src = "file" -> [o EXCEPT !.pc = "PREPROCESS"]
                    [] src = "url" -> [o EXCEPT !.pc = "FETCH_WAIT"]
                    [] OTHER -> OcrFail(o, 400, "Provide an image file or url")
    /\ UNCHANGED <<cfg, bc>>
    /\ UNCHANGED reqVars
    /\ UNCHANGED fnVars
    /\ UNCHANGED served

\* what the framework sends for an error no handler took: an HTML page with
\* the status text or, outside production, the stack of the error
Page(status, stack) ==
    [status |-> status, error |-> "", data |-> [t |-> "html", stack |-> stack]]

\* upload.single("image") refuses the multipart body (a file part under
\* another field name, a broken part) and passes the error on with next(err);
\* the route handler never runs and no error middleware is registered
OcrUpload(production) ==
    /\ ocr.pc = "IDLE"
    /\ ocr' = [ocr EXCEPT !.pc = "DONE", !.resp = Page(500, ~production)]
    /\ UNCHANGED <<cfg, bc>>
    /\ UNCHANGED reqVars
    /\ UNCHANGED fnVars
    /\ UNCHANGED served

\* await fetch(url) settles
OcrFetchReply(outcome) ==
    /\ ocr.pc = "FETCH_WAIT"
    /\ ocr' = CASE outcome = "ok" -> [ocr EXCEPT !.pc = "BODY_WAIT"]
                [] outcome = "notok" -> OcrFail(ocr, 400, "Could not fetch image URL")
                [] OTHER -> OcrFail(ocr, 500, "fetch failed")
    /\ UNCHANGED <<cfg, bc>>
    /\ UNCHANGED reqVars
    /\ UNCHANGED fnVars
    /\ UNCHANGED served

\* await r.arrayBuffer() settles
OcrBodyReply(outcome) ==
    /\ ocr.pc = "BODY_WAIT"
    /\ ocr' = IF outcome = "ok" THEN [ocr EXCEPT !.pc = "PREPROCESS"]
              ELSE OcrFail(ocr, 500, "terminated")
    /\ UNCHANGED <<cfg, bc>>
    /\ UNCHANGED reqVars
    /\ UNCHANGED fnVars
    /\ UNCHANGED served

\* await preprocess(inputBuffer, FAST) settles; the provider is started
OcrPreprocess(outcome) ==
    /\ ocr.pc = "PREPROCESS"
    /\ ocr' = IF outcome = "ok" THEN startProvider(ocr)
              ELSE OcrFail(ocr, 500, "Input buffer contains unsupported image format")
    /\ UNCHANGED <<cfg, bc>>
    /\ UNCHANGED reqVars
    /\ UNCHANGED fnVars
    /\ UNCHANGED served

\* visionClient.documentTextDetection settles
OcrVisionReply(outcome) ==
    /\ ocr.pc = "VISION_WAIT"
    /\ LET out == [text |-> OCR_RAW, confidence |-> CONF_VISION]
       IN  ocr' =
             CASE outcome = "ok" /\ ocr.caller = "route" ->
                     OcrFinish([ocr EXCEPT !.calls = Answered(@, out)], out)
               [] outcome = "ok" /\ ocr.caller = "hybrid" ->
                     afterBase([ocr EXCEPT !.calls = Answered(@, out)], out)
               [] outcome # "ok" /\ ocr.caller = "hybrid" ->
                     [ocr EXCEPT !.pc = "TESS_WAIT",
                                 !.calls = Append(Failed(@), Call("tesseract"))]
               [] outcome = "billing" /\ ocr.caller = "route" ->
                     OcrFail([ocr EXCEPT !.calls = Failed(@)], 500,
                             "Google Vision requires billing to be enabled on your GCP project.")
               [] OTHER ->
                     OcrFail([ocr EXCEPT !.calls = Failed(@)], 500, "vision failed")
    /\ UNCHANGED <<cfg, bc>>
    /\ UNCHANGED reqVars
    /\ UNCHANGED fnVars
    /\ UNCHANGED served

\* Tesseract.recognize settles (the general and the numeric pass)
OcrTessReply(outcome) ==
    /\ ocr.pc = "TESS_WAIT"
    /\ LET out == [text |-> OCR_LOCAL, confidence |-> CONF_LOCAL]
       IN  ocr' =
             CASE outcome = "ok" /\ ocr.caller = "route" ->
                     OcrFinish([ocr EXCEPT !.calls = Answered(@, out)], out)
               [] outcome = "ok" /\ ocr.caller = "hybrid" ->
                     afterBase([ocr EXCEPT !.calls = Answered(@, out)], out)
               [] OTHER ->
                     OcrFail([ocr EXCEPT !.calls = Failed(@)], 500, "tesseract failed")
    /\ UNCHANGED <<cfg, bc>>
    /\ UNCHANGED reqVars
    /\ UNCHANGED fnVars
    /\ UNCHANGED served

CleanReplies == {Value(Str(OCR_CLEAN)), Value(Str(OCR_BLANK)), Threw("gemini failed")}

\* runHybrid: model.generateContent settles;
\* cleaned = (await res.response.text())?.trim() || base.text
OcrCleanReply(reply) ==
    /\ ocr.pc = "CLEAN_WAIT"
    /\ ocr' =
         IF reply.kind = "threw"
         THEN OcrFail([ocr EXCEPT !.calls = Failed(@)], 500, reply.msg)
         ELSE LET cleaned == Or(Str(trim(reply.data.v)), Str(ocr.base.text)).v
                  out == hybridResult(cleaned, ocr.base)
              IN  OcrFinish([ocr EXCEPT !.calls = Answered(@, out)], out)
    /\ UNCHANGED <<cfg, bc>>
    /\ UNCHANGED reqVars
    /\ UNCHANGED fnVars
    /\ UNCHANGED served

\* runGeminiOCR: model.generateContent settles; Gemini supplies no confidence
OcrGeminiReply(reply) ==
    /\ ocr.pc = "GEMINI_WAIT"
    /\ ocr' =
         IF reply.kind = "threw"
         THEN OcrFail([ocr EXCEPT !.calls = Failed(@)], 500, reply.msg)
         ELSE LET out == [text |-> trim(reply.data.v), confidence |-> 0]
              IN  OcrFinish([ocr EXCEPT !.calls = Answered(@, out)], out)
    /\ UNCHANGED <<cfg, bc>>
    /\ UNCHANGED reqVars
    /\ UNCHANGED fnVars
    /\ UNCHANGED served

OcrOrders == {<<>>, <<"vision", "gemini">>, <<"hybrid", "vision">>}

OcrCfgs == [genAI : BOOLEAN, visionClient : BOOLEAN, order : OcrOrders]

InitOcr ==
    /\ InitReq
    /\ InitServed
    /\ InitFn
    /\ cfg \in OcrCfgs
    /\ ocr = OcrIdle
    /\ bc = BcIdle

\* steps of the server itself
OcrLocal ==
    \/ \E requested \in Requested, src \in ImageSources : OcrRequest(requested, src)
    \/ \E production \in BOOLEAN : OcrUpload(production)
    \/ \E outcome \in {"ok", "error"} : OcrPreprocess(outcome)

\* steps that need an answer from outside the server
OcrReplies ==
    \/ \E outcome \in {"ok", "notok", "error"} : OcrFetchReply(outcome)
    \/ \E outcome \in {"ok", "error"} : OcrBodyReply(outcome)
    \/ \E outcome \in {"ok", "billing", "error"} : OcrVisionReply(outcome)
    \/ \E outcome \in {"ok", "error"} : OcrTessReply(outcome)
    \/ \E reply \in CleanReplies : OcrCleanReply(reply)
    \/ \E reply \in CleanReplies : OcrGeminiReply(reply)

NextOcr == OcrLocal \/ OcrReplies

SpecOcr == InitOcr /\ [][NextOcr]_vars

\* the server's own steps always happen; no answer from outside is promised
SpecOcrLive == SpecOcr /\ WF_vars(OcrLocal)

(***************************************************************************)
(* lookupBarcodeInfo                                                       *)
(***************************************************************************)
BC_TITLE == <<"T","e","a">>
BC_BRAND == <<"A","c","m","e">>
BC_IMAGE == <<"i",".","j","p","g">>

\* an entry of response.data.items; a key the catalog left out is undefined
Items ==
    [title : {Str(BC_TITLE), Undefined},
     brand : {Str(BC_BRAND), Undefined},
     images : {Undefined, Arr(<<>>), Arr(<<Str(BC_IMAGE)>>)}]

BareItem == [title |-> Undefined, brand |-> Undefined, images |-> Undefined]

\* response.data.items: left out, or an array
ItemLists ==
    {Undefined, Arr(<<>>)} \cup {Arr(<<it>>) : it \in Items}
    \cup {Arr(<<it, BareItem>>) : it \in {i \in Items : i.images = Arr(<<>>)}}

\* a parsed JSON body
Bodies200 == [t : {"obj"}, code : {"OK", "INVALID_UPC"}, items : ItemLists]

\* what axios.get settles with: a 2xx response (JSON body, null body, text
\* body), a rejection for another status, or a network failure
BcReplies ==
    {[kind |-> "data", data |-> b] : b \in Bodies200}
    \cup {[kind |-> "data", data |-> Null], [kind |-> "data", data |-> Str(<<"<">>)]}
    \cup {[kind |-> "rejected", msg |-> "Request failed with status code 404"],
          [kind |-> "rejected", msg |-> "Request failed with status code 429"],
          [kind |-> "rejected", msg |-> "getaddrinfo ENOTFOUND api.upcitemdb.com"]}

\* item.images && item.images.length > 0 ? item.images[0] : null
firstImage(item) ==
    IF item.images = Undefined THEN Null
    ELSE IF Len(item.images.v) > 0 THEN item.images.v[1] ELSE Null

\* the try block of lookupBarcodeInfo
lookupBody(barcode, reply) ==
    IF reply.kind = "rejected" THEN Threw(reply.msg)
    ELSE IF reply.data = Null
    THEN Threw("Cannot read properties of null (reading 'code')")
    ELSE IF reply.data.t = "str" THEN Value([barcode |-> barcode, found |-> FALSE])
    ELSE IF /\ reply.data.code = "OK"
            /\ reply.data.items # Undefined
            /\ Len(reply.data.items.v) > 0
    THEN LET item == reply.data.items.v[1]
         IN  Value([barcode |-> barcode,
                    productName |-> Or(item.title, Null),
                    brand |-> Or(item.brand, Null),
                    image |-> firstImage(item),
                    found |-> TRUE])
    ELSE Value([barcode |-> barcode, found |-> FALSE])

\* a lookup without the catch block
lookupBarcodeInfoNoCatch(barcode, reply) == lookupBody(barcode, reply)

\* try { ... } catch (error) { return { barcode, found: false, error: error.message } }
lookupBarcodeInfo(barcode, reply) ==
    LET t == lookupBody(barcode, reply)
    IN  IF t.kind = "threw"
        THEN Value([barcode |-> barcode, found |-> FALSE, error |-> t.msg])
        ELSE t

Barcodes ==
    {<<"8","9","0","1","0","3","0","8","6","5","2","7","8">>,
     <<"0","1","2","3","4","5","6","7","8","9","0","5">>,
     <<"4","0","0","6","3","8","1","3","3","3","9","3","1">>}

\* what the route sends once the lookup has settled: res.json(productInfo),
\* or the 500 of its catch block; a direct caller gets no response
routeAnswer(route, t) ==
    IF ~route THEN NoResp
    ELSE IF t.kind = "threw" THEN Err(500, t.msg) ELSE Json(t.data)

\* axios.get(BARCODE_API_BASE, { params: { upc: barcode }, timeout: 10000 }) is issued
BcLookup(barcode) ==
    /\ bc.pc = "IDLE"
    /\ bc' = [bc EXCEPT !.pc = "WAIT", !.barcode = barcode, !.calls = @ + 1]
    /\ UNCHANGED <<cfg, ocr>>
    /\ UNCHANGED reqVars
    /\ UNCHANGED fnVars
    /\ UNCHANGED served

\* the catalog answers, or the connection fails
BcReply(reply) ==
    /\ bc.pc = "WAIT"
    /\ bc' = [bc EXCEPT !.pc = "DONE", !.reply = reply,
                        !.result = lookupBarcodeInfo(bc.barcode, reply),
                        !.resp = routeAnswer(bc.route,
                                             lookupBarcodeInfo(bc.barcode, reply))]
    /\ UNCHANGED <<cfg, ocr>>
    /\ UNCHANGED reqVars
    /\ UNCHANGED fnVars
    /\ UNCHANGED served

BC_TIMEOUT == [kind |-> "rejected", msg |-> "timeout of 10000ms exceeded"]

\* the timer of the axios timeout option runs out first
BcTimeout ==
    /\ bc.pc = "WAIT"
    /\ bc' = [bc EXCEPT !.pc = "DONE", !.reply = BC_TIMEOUT,
                        !.result = lookupBarcodeInfo(bc.barcode, BC_TIMEOUT),
                        !.resp = routeAnswer(bc.route,
                                             lookupBarcodeInfo(bc.barcode, BC_TIMEOUT))]
    /\ UNCHANGED <<cfg, ocr>>
    /\ UNCHANGED reqVars
    /\ UNCHANGED fnVars
    /\ UNCHANGED served

InitBarcode == InitReq /\ InitServed /\ InitFn /\ InitSvc

NextBarcode ==
    \/ \E barcode \in Barcodes : BcLookup(barcode)
    \/ \E reply \in BcReplies : BcReply(reply)
    \/ BcTimeout

SpecBarcode == InitBarcode /\ [][NextBarcode]_vars

(***************************************************************************)
(* GET /api/barcode/lookup/:barcode                                        *)
(***************************************************************************)
\* a pattern without the end anchor
RE_BARCODE_OPEN_END == Cat(<<Bol, Rep(D, 8, 14)>>)

\* /^\d{8,14}$/
RE_BARCODE == Cat(<<Bol, Rep(D, 8, 14), Eol>>)

\* RegExp.prototype.test
test(r, s) == match(s, r) # Null

\* n digits: 1 2 3 ... 9 0 1 ...
DigitsOfLen(n) == <<>> \o [i \in 1..n |-> Digits[(i % 10) + 1]]

\* req.params.barcode: runs of digits around the limits, and codes with a
\* character that is not a digit at the start, inside and at the end
RouteCodes ==
    {DigitsOfLen(n) : n \in {1, 7, 8, 9, 13, 14, 15, 20}}
    \cup {DigitsOfLen(8) \o <<"\n">>, DigitsOfLen(8) \o <<"a">>,
          <<" ">> \o DigitsOfLen(8), <<"-">> \o DigitsOfLen(9),
          DigitsOfLen(4) \o <<".">> \o DigitsOfLen(4),
          DigitsOfLen(14) \o <<" ">>, <<"a","b","c","d","e","f","g","h">>}

\* the handler up to its await: the format check, then the lookup is called
BcRoute(code) ==
    /\ bc.pc = "IDLE"
    /\ IF ~test(RE_BARCODE, code)
       THEN bc' = [bc EXCEPT !.pc = "DONE", !.route = TRUE, !.barcode = code,
                             !.resp = Err(400, "Invalid barcode format")]
       ELSE bc' = [bc EXCEPT !.pc = "WAIT", !.route = TRUE, !.barcode = code,
                             !.calls = @ + 1]
    /\ UNCHANGED <<cfg, ocr>>
    /\ UNCHANGED reqVars
    /\ UNCHANGED fnVars
    /\ UNCHANGED served

NextBarcodeRoute ==
    \/ \E code \in RouteCodes : BcRoute(code)
    \/ \E reply \in BcReplies : BcReply(reply)
    \/ BcTimeout

SpecBarcodeRoute == InitBarcode /\ [][NextBarcodeRoute]_vars

(***************************************************************************)
(* Two product-info requests and an OCR request in hand at once.  A        *)
(* handler gives way only at an await, that is between two actions: the    *)
(* suspended handler's locals are put aside and the other handler's taken  *)
(* up.  What the module keeps (SANDBOX, the configuration, the sessions)   *)
(* stays where it is.                                                      *)
(***************************************************************************)
Switch ==
    /\ conc' = [me |-> conc.parked.me, parked |-> Running]
    /\ pc' = conc.parked.pc
    /\ mode' = conc.parked.mode
    /\ inputUrl' = conc.parked.inputUrl
    /\ resp' = conc.parked.resp
    /\ sent' = conc.parked.sent
    /\ landed' = conc.parked.landed
    /\ startUrl' = conc.parked.startUrl
    /\ bodyRead' = conc.parked.bodyRead
    /\ htmlOut' = conc.parked.htmlOut
    /\ brOut' = conc.parked.brOut
    /\ browser' = conc.parked.browser
    /\ pending' = conc.parked.pending
    /\ finalChecked' = conc.parked.finalChecked
    /\ nFetch' = conc.parked.nFetch
    /\ nLaunch' = conc.parked.nLaunch
    /\ nGoto' = conc.parked.nGoto
    /\ nQuery' = conc.parked.nQuery
    /\ nFixture' = conc.parked.nFixture
    /\ UNCHANGED <<fixtures, sessions>>
    /\ UNCHANGED fnVars
    /\ UNCHANGED served
    /\ UNCHANGED svcVars

\* the requests sent side by side: the same URL twice is among the pairs
ConcRequests ==
    {<<Url(H_WWW_AMAZON, "B07WNS52H2"), "sandbox">>,
     <<Url(H_WWW_AMAZON, ""), "browser">>}

\* where the navigations of these runs end up
ConcLandings == {Url(H_WWW_AMAZON, ""), Url(H_EVILAMAZON, "")}

\* the records of these runs: a page with no price and no image
ConcRecord(out) == out.kind = "value" => (out.data.price = Null /\ out.data.image = Null)

ConcCfgs ==
    {NoCfg, [genAI |-> TRUE, visionClient |-> TRUE, order |-> <<"vision", "gemini">>]}

InitConc ==
    /\ InitReq
    /\ InitServed
    /\ InitFn
    /\ cfg \in ConcCfgs
    /\ ocr = OcrIdle
    /\ bc = BcIdle

NextConc ==
    \/ \E rq \in ConcRequests : Request(rq[1], rq[2])
    \/ Guard
    \/ Sandbox
    \/ BrowserLaunch
    \/ BrContext
    \/ BrGoto /\ landed' \in ConcLandings \cup {EmptyUrl}
    \/ BrEval /\ ConcRecord(brOut')
    \/ BrFinally
    \/ BrReturn
    \/ Switch
    \/ \E src \in {"file", "none"} : OcrRequest("tesseract", src)
    \/ \E outcome \in {"ok", "error"} : OcrPreprocess(outcome)
    \/ \E outcome \in {"ok", "error"} : OcrTessReply(outcome)

SpecConc == InitConc /\ [][NextConc]_vars

(***************************************************************************)
(* The two extractors on their own: a page (or what the locators of the    *)
(* rendered page return) and an allowlisted final host are drawn, and the  *)
(* extractor is applied                                                    *)
(***************************************************************************)
H_WWW_GROFERS     == <<"w","w","w",".">> \o GROFERS_COM
H_AMAZON_FLIPKART == <<"a","m","a","z","o","n",".">> \o FLIPKART_COM

ExtractHosts == {H_WWW_AMAZON, H_FLIPKART, MYNTRA_COM, NYKAA_COM, BIGBASKET_COM,
                 H_WWW_1MG, H_WWW_GROFERS, H_AMAZON_FLIPKART}

InitExtract ==
    /\ InitReq
    /\ InitServed
    /\ InitSvc
    /\ fn = ""
    /\ ret = ""
    /\ \E h \in ExtractHosts :
          \/ \E pg \in Pages(h) : arg = [of |-> "html", page |-> pg, url |-> Url(h, "")]
          \/ \E vw \in Views : arg = [of |-> "browser", page |-> vw, url |-> Url(h, "")]

ApplyExtractFromHtml ==
    /\ fn = ""
    /\ arg.of = "html"
    /\ fn' = "extractFromHtml"
    /\ ret' = extractFromHtml(arg.page, arg.url)
    /\ UNCHANGED arg
    /\ UNCHANGED reqVars
    /\ UNCHANGED served
    /\ UNCHANGED svcVars

ApplyBrowserRecord ==
    /\ fn = ""
    /\ arg.of = "browser"
    /\ fn' = "extractWithBrowser"
    /\ ret' = browserRecord(arg.page, arg.url)
    /\ UNCHANGED arg
    /\ UNCHANGED reqVars
    /\ UNCHANGED served
    /\ UNCHANGED svcVars

NextExtract == ApplyExtractFromHtml \/ ApplyBrowserRecord

SpecExtract == InitExtract /\ [][NextExtract]_vars

(***************************************************************************)
(* The Allowlist Guard on its own: a hostname is drawn, the guard applied  *)
(***************************************************************************)
InitGuard ==
    /\ InitReq
    /\ InitServed
    /\ InitSvc
    /\ fn = ""
    /\ arg \in GuardHosts \cup ReqHosts
    /\ ret = FALSE

ApplyIsAllowedHost ==
    /\ fn = ""
    /\ fn' = "isAllowedHost"
    /\ ret' = isAllowedHost(arg)
    /\ UNCHANGED arg
    /\ UNCHANGED reqVars
    /\ UNCHANGED served
    /\ UNCHANGED svcVars

NextGuard == ApplyIsAllowedHost

SpecGuard == InitGuard /\ [][NextGuard]_vars

(***************************************************************************)
(* The sandbox path served repeatedly, between requests of another mode    *)
(***************************************************************************)
SbUrls == {Url(H_WWW_AMAZON, "B07WNS52H2"), Url(H_WWW_AMAZON, "B000000000"),
           Url(H_FLIPKART, "")}

SbRequests == {<<u, "sandbox">> : u \in SbUrls} \cup {<<Url(H_WWW_1MG, ""), "html">>}

\* the handler returns and the server takes the next request; the first
\* answer to each sandbox URL is noted
Recycle ==
    /\ pc \in {"DONE", "FAILED"}
    /\ served' = IF mode = "sandbox" /\ served[inputUrl] = NoResp
                 THEN [served EXCEPT ![inputUrl] = resp] ELSE served
    /\ pc' = "START"
    /\ mode' = ""
    /\ inputUrl' = EmptyUrl
    /\ resp' = NoResp
    /\ sent' = 0
    /\ landed' = EmptyUrl
    /\ startUrl' = EmptyUrl
    /\ bodyRead' = NoBody
    /\ htmlOut' = NoOut
    /\ brOut' = NoOut
    /\ browser' = "none"
    /\ pending' = ""
    /\ finalChecked' = FALSE
    /\ nFetch' = 0
    /\ nLaunch' = 0
    /\ nGoto' = 0
    /\ nQuery' = 0
    /\ nFixture' = 0
    /\ UNCHANGED fixtures
    /\ UNCHANGED <<sessions, conc>>
    /\ UNCHANGED fnVars
    /\ UNCHANGED svcVars

NextSandbox ==
    \/ \E rq \in SbRequests : Request(rq[1], rq[2])
    \/ Guard
    \/ Sandbox
    \/ HtmlFetch
    \/ HtmlBody
    \/ Recycle

SpecSandbox == Init /\ [][NextSandbox]_vars

(***************************************************************************)
(* Properties                                                              *)
(***************************************************************************)
Terminal == pc \in {"DONE", "FAILED"}

\* the suffix rule of section 4.1, computed on the lower-cased host
SuffixRule(H) ==
    LET h == toLowerCase(H)
    IN  \E k \in 1..Len(ALLOW_RE) :
            h = ALLOW_RE[k] \/ endsWith(h, <<".">> \o ALLOW_RE[k])

\* C1: isAllowedHost(H) is true exactly when H, compared case-insensitively,
\* equals a configured suffix or ends with "." followed by one; hosts that
\* merely contain a suffix (amazon.in.evil.com, evilamazon.in) are rejected.
C1_AllowedIffSuffixOnLabelBoundary ==
    fn = "isAllowedHost" =>
        /\ ret <=> SuffixRule(arg)
        /\ arg \in {H_SPOOF, H_EVILAMAZON} => ~ret

\* a mixed-case subdomain of an allowlisted suffix has been accepted
C1_Witness ==
    /\ fn = "isAllowedHost"
    /\ arg = WWW \o DOT \o AMAZON_MIXED
    /\ ret = TRUE

\* C2: every ProductRecord sent has a url whose host passes the guard; a
\* request whose final post-redirect host is not allowed never yields a
\* record; in the browser path the final host is tested before any page
\* content is queried.
C2_ReturnedUrlAllowed ==
    /\ resp.status = 200 => isAllowedHost(resp.data.url.hostname)
    /\ (landed # EmptyUrl /\ ~isAllowedHost(landed.hostname)) => resp.status # 200
    /\ (resp.status = 200 /\ mode # "sandbox") => resp.data.url = landed
    /\ nQuery > 0 => (finalChecked /\ isAllowedHost(landed.hostname))

\* an allowed start host, html incomplete, the browser landed on a spoofed
\* host and the request failed
C2_Witness ==
    /\ pc = "FAILED"
    /\ mode = "auto"
    /\ isAllowedHost(inputUrl.hostname)
    /\ nLaunch = 1
    /\ landed = Url(H_SPOOF, "")
    /\ nQuery = 0

\* C3: a request whose initial host fails the guard is answered 400 "Domain
\* not allowed", and no fixture lookup, direct fetch or browser launch is
\* performed for it, whatever the mode.
C3_GuardBeforeAnyWork ==
    (pc # "START" /\ ~isAllowedHost(inputUrl.hostname)) =>
        /\ nFixture = 0 /\ nFetch = 0 /\ nLaunch = 0
        /\ pc \in {"GUARD", "FAILED"}
        /\ pc = "FAILED" => (resp = Err(400, "Domain not allowed") /\ sent = 1)

\* a sandbox request for a spoofed host has been rejected
C3_Witness ==
    /\ pc = "FAILED"
    /\ mode = "sandbox"
    /\ inputUrl.hostname = H_SPOOF
    /\ resp.status = 400

\* C4: a final post-redirect host that is not allowlisted (direct fetch or
\* browser) is reported as a client error, the error class of a rejected
\* initial host, not as the generic server failure.
C4_FinalHostRejectionIsClientError ==
    (Terminal /\ (htmlOut.msg = "Final domain not allowed"
                  \/ brOut.msg = "Final domain not allowed")) =>
        /\ resp.status \in 400..499
        /\ resp.status = Err(400, "Domain not allowed").status

\* html results that make AUTO go on: null, or a record failing the check
HtmlInsufficient ==
    htmlOut.kind = "value" /\ (htmlOut.data = Null \/ ~minimalOk(htmlOut.data))

BrowserPcs == {"BROWSER", "BR_CONTEXT", "BR_GOTO", "BR_EVAL", "BR_FINALLY", "BR_RETURN"}

\* C5: in auto mode, a null or incomplete HTML result makes the controller
\* invoke the Browser Extractor on the same input URL; the request then
\* succeeds with the browser's record when that record passes the
\* completeness check, and ends with the ExtractionFailed error when the
\* browser's record fails it.
C5_AutoEscalatesOnInsufficientHtml ==
    (mode = "auto" /\ HtmlInsufficient) =>
        /\ pc \in BrowserPcs \cup {"DONE", "FAILED"}
        /\ pc # "BROWSER" => (nLaunch = 1 /\ startUrl = inputUrl)
        /\ (Terminal /\ brOut.kind = "value") =>
              IF minimalOk(brOut.data)
              THEN resp = Json(brOut.data)
              ELSE resp = Err(451, "Could not extract product details (auto).")

\* auto: an incomplete (non-null) html record, then a complete browser record
C5_Witness ==
    /\ pc = "DONE"
    /\ mode = "auto"
    /\ htmlOut.kind = "value" /\ htmlOut.data # Null /\ ~minimalOk(htmlOut.data)
    /\ brOut.kind = "value" /\ resp = Json(brOut.data)

\* C6: in auto mode, an exception of the HTML Extractor (non-OK upstream
\* status, network error) makes the controller go on to the Browser
\* Extractor instead of ending the request with that error.
C6_AutoEscalatesOnHtmlThrow ==
    (mode = "auto" /\ htmlOut.kind = "threw") =>
        (pc \in BrowserPcs \/ nLaunch >= 1)

\* C7: a direct fetch or a browser navigation that exceeds its time bound
\* ends the request in failure; in auto mode a direct-fetch timeout does not
\* escalate to the browser; neither the fetch nor the navigation is
\* attempted twice within a request.
C7_TimeoutFailsWithoutRetry ==
    /\ nFetch <= 1 /\ nGoto <= 1
    /\ htmlOut.msg = "This operation was aborted" =>
          (pc = "FAILED" /\ resp.status >= 400 /\ nLaunch = 0 /\ sent = 1)
    /\ pending = "Timeout 30000ms exceeded" =>
          /\ pc \in {"BR_FINALLY", "BR_RETURN", "FAILED"}
          /\ pc = "FAILED" => (resp.status >= 400 /\ sent = 1)

\* auto: the direct fetch timed out and the request failed
C7_Witness ==
    /\ pc = "FAILED"
    /\ mode = "auto"
    /\ htmlOut.msg = "This operation was aborted"
    /\ nFetch = 1

\* C8: an explicit mode invokes only the named extractor, once: html never
\* launches a browser, browser never issues the direct fetch; a null or
\* incomplete result ends the request with ExtractionIncomplete, whose
\* status differs from the generic server-failure status.
C8_ExplicitModeSingleExtractor ==
    /\ mode = "html" => (nLaunch = 0 /\ nFetch <= 1 /\ nFixture = 0)
    /\ mode = "browser" => (nFetch = 0 /\ nLaunch <= 1 /\ nFixture = 0)
    /\ (Terminal /\ mode = "html" /\ isAllowedHost(inputUrl.hostname)) => nFetch = 1
    /\ (Terminal /\ mode = "browser" /\ isAllowedHost(inputUrl.hostname)) => nLaunch = 1
    /\ (Terminal /\ mode = "html" /\ HtmlInsufficient) =>
          /\ resp = Err(451, "Extraction incomplete (html).")
          /\ resp.status # catchResponse("").status
    /\ (Terminal /\ mode = "browser" /\ brOut.kind = "value" /\ ~minimalOk(brOut.data)) =>
          /\ resp = Err(451, "Extraction incomplete (browser).")
          /\ resp.status # catchResponse("").status

\* html mode: the extractor returned null (bot challenge) and the request
\* ended with ExtractionIncomplete
C8_Witness ==
    /\ pc = "FAILED"
    /\ mode = "html"
    /\ htmlOut = Value(Null)
    /\ resp.status = 451

CheckedFields == {"productName", "brand", "price", "image"}
AnyNonNull(d) == \E f \in CheckedFields : d[f] # Null
AnyTruthy(d) == \E f \in CheckedFields : Truthy(d[f])

\* the record the completeness check of an explicit mode was applied to
ExplicitChecked ==
    IF mode = "html" THEN htmlOut ELSE IF mode = "browser" THEN brOut ELSE NoOut

\* C9 as stated: the completeness check accepts a record exactly when one of
\* productName, brand, price, image is non-null (so a lone price = 0 or an
\* empty productName counts as complete).
C9_CompleteIffSomeFieldNonNull ==
    (Terminal /\ ExplicitChecked.kind = "value" /\ ExplicitChecked.data # Null) =>
        (resp.status = 200 <=> AnyNonNull(ExplicitChecked.data))

\* C9 amended: the completeness check accepts a record exactly when one of
\* productName, brand, price, image is truthy: non-null, not the empty
\* string and not 0; a lone price = 0 or an empty productName is incomplete.
C9_CompleteIffSomeFieldTruthy ==
    (Terminal /\ ExplicitChecked.kind = "value" /\ ExplicitChecked.data # Null) =>
        /\ resp.status = 200 <=> AnyTruthy(ExplicitChecked.data)
        /\ resp.status = 200 <=> minimalOk(ExplicitChecked.data)

\* html mode: a record whose only non-null field is price = 0 was refused
C9_Witness ==
    /\ pc = "FAILED"
    /\ mode = "html"
    /\ htmlOut.kind = "value" /\ htmlOut.data # Null
    /\ htmlOut.data.price = Num(0, 0)
    /\ htmlOut.data.productName = Null
    /\ htmlOut.data.brand = Null
    /\ htmlOut.data.image = Null
    /\ resp.status = 451

\* C10: the browser session is closed on every way out of
\* extractWithBrowser; control never returns to the handler, and no
\* response is sent, with the browser still open.
C10_BrowserClosedOnEveryExit ==
    /\ pc \in {"BR_RETURN", "DONE", "FAILED"} => browser # "open"
    /\ sent > 0 => browser # "open"
    /\ (Terminal /\ nLaunch = 1 /\ brOut.msg # "browserType.launch failed")
          => browser = "closed"

\* the final host was rejected in the browser path; the session is closed
C10_Witness ==
    /\ pc = "FAILED"
    /\ pending = "Final domain not allowed"
    /\ browser = "closed"

ChallengePhrases == {W_CAPTCHA,
                     W_UNUSUAL \o <<" ">> \o W_TRAFFIC,
                     W_AUTOMATED \o <<" ">> \o W_ACCESS}

\* the text contains a signature phrase, compared case-insensitively
HasChallengePhrase(tx) == \E ph \in ChallengePhrases : includes(toLowerCase(tx), ph)

\* C11: an OK response from an allowlisted final host whose body contains,
\* case-insensitively, "captcha", "unusual traffic" or "automated access"
\* makes the HTML Extractor return null without throwing; auto mode then
\* goes on to the browser and html mode reports ExtractionIncomplete.
C11_ChallengeBodyYieldsNull ==
    (bodyRead.kind = "text" /\ HasChallengePhrase(bodyRead.text)) =>
        /\ htmlOut = Value(Null)
        /\ mode = "html" =>
              (pc = "FAILED" /\ resp = Err(451, "Extraction incomplete (html)."))
        /\ mode = "auto" => (pc \in BrowserPcs \/ nLaunch = 1)

\* auto: the body said "Unusual traffic"; the browser is about to be launched
C11_Witness ==
    /\ mode = "auto"
    /\ bodyRead.text = T_UNUSUAL
    /\ htmlOut = Value(Null)
    /\ pc = "BROWSER"

\* the platform whose fixtures a host's URLs belong to
VendorOf(H) ==
    LET h == toLowerCase(H)
    IN  IF endsWith(h, AMAZON_IN) THEN "amazon"
        ELSE IF endsWith(h, FLIPKART_COM) THEN "flipkart"
        ELSE IF endsWith(h, MYNTRA_COM) THEN "myntra"
        ELSE ""

NoFixture == Err(404, "Sandbox has no fixture for this URL/ID.")

\* C12: a sandbox request on an allow-listed URL is answered, without any
\* fetch or browser launch, with the fixture stored under (platform, product
\* id of the URL), and with NoFixture when the table holds none under that key.
C12_SandboxKeyedByPlatformAndId ==
    (Terminal /\ mode = "sandbox" /\ isAllowedHost(inputUrl.hostname)) =>
        /\ nFetch = 0
        /\ nLaunch = 0
        /\ LET item == fixtureAt(VendorOf(inputUrl.hostname), toUpperId(inputUrl.asin))
           IN  IF item = Null
               THEN resp = NoFixture
               ELSE /\ resp.status = 200
                    /\ resp.data.productName = item.productName
                    /\ resp.data.price = item.price

\* C13: the fixture table is never modified, and a sandbox URL asked again,
\* whatever was served in between, gets the answer it got the first time.
C13_SandboxIdempotent ==
    /\ fixtures = InitialFixtures
    /\ (Terminal /\ mode = "sandbox" /\ served[inputUrl] # NoResp) =>
           resp = served[inputUrl]

C13_Witness ==
    /\ Terminal
    /\ mode = "sandbox"
    /\ served[inputUrl].status = 200
    /\ resp = served[inputUrl]
    /\ \E u \in SbUrls : u # inputUrl /\ served[u].status = 404

SlotNames == {"productName", "netQuantity", "mrp", "manufacturer",
              "countryOfOrigin", "consumerCare", "bestBefore"}

\* C14: whatever the text (null, empty, all patterns missing), the parser
\* returns exactly the seven slots, each with exactly a text (string or
\* null), a confidence and a boolean compliant.
C14_SevenSlotsAlways ==
    fn = "parseFields" =>
        /\ DOMAIN ret = SlotNames
        /\ \A k \in SlotNames :
              /\ DOMAIN ret[k] = {"text", "confidence", "compliant"}
              /\ ret[k].text.t \in {"str", "null"}
              /\ ret[k].confidence \in 0..100
              /\ ret[k].compliant \in BOOLEAN

C14_Witness ==
    /\ fn = "parseFields"
    /\ arg = Null
    /\ \A k \in SlotNames : ret[k].text = Null

\* the pattern and the weight of each slot
PatternOf(k) ==
    CASE k = "productName" -> RE_NAME
      [] k = "netQuantity" -> RE_NET
      [] k = "mrp" -> RE_MRP
      [] k = "manufacturer" -> RE_MANU
      [] k = "countryOfOrigin" -> RE_ORIGIN
      [] k = "consumerCare" -> RE_CARE
      [] k = "bestBefore" -> RE_BEST

WeightOf(k) ==
    CASE k = "productName" -> 80
      [] k = "netQuantity" -> 85
      [] k = "mrp" -> 85
      [] k = "manufacturer" -> 70
      [] k = "countryOfOrigin" -> 70
      [] k = "consumerCare" -> 70
      [] k = "bestBefore" -> 65

\* the slot's pattern matches somewhere in the upper-cased, collapsed text
Matched(k, fullText) ==
    LET text == toUpperCase(collapseSpaces(IF fullText = Null THEN <<>> ELSE fullText.v))
    IN  \E p \in 1..(Len(text) + 1) : MatchesAt(PatternOf(k), text, p)

\* C15: in every slot compliant says whether the slot's pattern matched, the
\* confidence is the slot's fixed weight on a match and on a miss alike, and
\* a miss is {text: null, confidence: weight, compliant: false}.
C15_CompliantIffMatchedFixedWeight ==
    fn = "parseFields" =>
        \A k \in SlotNames :
            /\ ret[k].compliant = Matched(k, arg)
            /\ ret[k].confidence = WeightOf(k)
            /\ ~Matched(k, arg) =>
                   ret[k] = [text |-> Null, confidence |-> WeightOf(k), compliant |-> FALSE]

C15_Witness ==
    /\ fn = "parseFields"
    /\ arg = Str(Join(NET_WT, MRP_RUPEE))
    /\ ret.netQuantity.compliant /\ ret.netQuantity.confidence = 85
    /\ ret.mrp.compliant
    /\ ret.bestBefore = [text |-> Null, confidence |-> 65, compliant |-> FALSE]
    /\ ret.consumerCare = [text |-> Null, confidence |-> 70, compliant |-> FALSE]

\* C16: the label "NET QTY 250 G ... BEST BEFORE 12 MONTHS" parses to net
\* quantity "250 G" and best-before "12 MONTHS", the whole unit word, both
\* compliant.
C16_LabelParsesToFullUnits ==
    (fn = "parseFields" /\ arg = Str(T_LABEL)) =>
        /\ ret.netQuantity = [text |-> Str(<<"2","5","0"," ","G">>),
                              confidence |-> 85, compliant |-> TRUE]
        /\ ret.bestBefore.text = Str(<<"1","2"," ","M","O","N","T","H","S">>)
        /\ ret.bestBefore.compliant

\* a provider the server can run now: local and hybrid always, cloud with a
\* client, generative with a key
Usable(p) ==
    \/ p = "tesseract"
    \/ p = "hybrid"
    \/ (p = "vision" /\ cfg.visionClient)
    \/ (p = "gemini" /\ cfg.genAI)

\* C18: an explicit provider is returned as given; otherwise the first usable
\* entry of the configured order; with no usable entry, gemini when a key is
\* configured and tesseract otherwise.
C18_ProviderSelectionPolicy ==
    fn = "pickProvider" =>
        IF arg # "" THEN ret = arg
        ELSE LET usable == {k \in 1..Len(cfg.order) : Usable(cfg.order[k])}
             IN  IF usable # {}
                 THEN \E k \in usable : (\A j \in usable : k <= j) /\ ret = cfg.order[k]
                 ELSE ret = (IF cfg.genAI THEN "gemini" ELSE "tesseract")

C18_Witness ==
    /\ fn = "pickProvider"
    /\ arg = ""
    /\ cfg.order = <<"vision", "gemini">>
    /\ ~cfg.visionClient
    /\ cfg.genAI
    /\ ret = "gemini"

BaseApis == {"vision", "tesseract"}

\* the base-layer call of a hybrid run that produced the transcription
BaseCall(calls) ==
    calls[CHOOSE k \in 1..Len(calls) :
              /\ calls[k].api \in BaseApis /\ calls[k].ok = "yes"
              /\ \A j \in (k + 1)..Len(calls) : calls[j].api \notin BaseApis]

\* C17: in a hybrid run the cloud API is called first when there is a client,
\* the local recognizer only without a client or after the cloud call failed,
\* the generative cleanup only after a base layer answered; without a
\* generative model the answer is the base transcription unchanged, and the
\* confidence answered is always that of the base layer that answered.
C17_HybridLayering ==
    (ocr.provider = "hybrid" /\ ocr.calls # <<>>) =>
        /\ cfg.visionClient => ocr.calls[1].api = "vision"
        /\ \A k \in 1..Len(ocr.calls) :
              /\ ocr.calls[k].api = "tesseract" =>
                    \/ ~cfg.visionClient
                    \/ (k > 1 /\ ocr.calls[k - 1].api = "vision" /\ ocr.calls[k - 1].ok = "no")
              /\ ocr.calls[k].api = "gemini" =>
                    /\ cfg.genAI
                    /\ k > 1
                    /\ ocr.calls[k - 1].api \in BaseApis
                    /\ ocr.calls[k - 1].ok = "yes"
        /\ ocr.resp.status = 200 =>
              /\ ocr.resp.data.confidence = BaseCall(ocr.calls).confidence
              /\ ~cfg.genAI => ocr.resp.data.text = BaseCall(ocr.calls).text
              /\ cfg.genAI => ocr.calls[Len(ocr.calls)].api = "gemini"

C17_Witness ==
    /\ ocr.provider = "hybrid"
    /\ cfg.visionClient
    /\ cfg.genAI
    /\ Len(ocr.calls) = 3
    /\ ocr.calls[1].ok = "no"
    /\ ocr.resp.status = 200
    /\ ocr.resp.data.text = OCR_CLEAN
    /\ ocr.resp.data.confidence = CONF_LOCAL

\* C19: every OCR request that has arrived is eventually answered, whether
\* or not the services it awaits ever reply.
C19_EveryRequestEventuallyAnswered ==
    (ocr.pc # "IDLE") ~> (ocr.resp # NoResp)

\* a 2xx answer whose body says OK and lists at least one item
StructuredFound(reply) ==
    /\ reply.kind = "data"
    /\ reply.data # Null
    /\ reply.data.t # "str"
    /\ reply.data.code = "OK"
    /\ reply.data.items # Undefined
    /\ Len(reply.data.items.v) >= 1

\* C20: a barcode lookup always returns a value, never an exception; the
\* value has found = true exactly for an OK answer with at least one item,
\* and found = false for any other body, HTTP error, timeout or network
\* failure.
C20_LookupNeverThrows ==
    bc.pc = "DONE" =>
        /\ bc.result.kind = "value"
        /\ bc.result.data.barcode = bc.barcode
        /\ bc.result.data.found = StructuredFound(bc.reply)

C20_Witness ==
    /\ bc.pc = "DONE"
    /\ bc.reply = BC_TIMEOUT
    /\ bc.result.kind = "value"
    /\ ~bc.result.data.found

\* C21: the barcode endpoint calls the catalog only for codes of 8 to 14
\* decimal digits and nothing else; any other code is answered 400
\* "Invalid barcode format" with no catalog call, and codes of exactly 8 and
\* exactly 14 digits are accepted.
C21_OnlyDigitCodesLookedUp ==
    (bc.route /\ bc.pc # "IDLE") =>
        LET wellFormed == /\ Len(bc.barcode) \in 8..14
                          /\ \A i \in 1..Len(bc.barcode) : IsDigit(bc.barcode[i])
        IN  IF wellFormed
            THEN /\ bc.calls = 1
                 /\ bc.resp.status # 400
            ELSE /\ bc.calls = 0
                 /\ bc.pc = "DONE"
                 /\ bc.resp = Err(400, "Invalid barcode format")

C21_Witness ==
    /\ bc.route
    /\ bc.pc = "DONE"
    /\ bc.barcode = DigitsOfLen(8) \o <<"\n">>
    /\ bc.calls = 0
    /\ bc.resp.status = 400

\* C22: every failing response of the extraction and OCR endpoints has a body
\* that is an object with a string error field, and none carries a stack
\* trace.
C22_FailuresAreErrorObjects ==
    /\ (pc \in {"DONE", "FAILED"} /\ resp.status >= 400) =>
            (resp.error # "" /\ resp.data = Null)
    /\ (ocr.pc = "DONE" /\ ocr.resp.status >= 400) =>
            (ocr.resp.error # "" /\ ocr.resp.data = Null)

\* what a handler answers when it runs alone, from its own request and the
\* replies it was given
AloneResponse(r) ==
    IF guardRejects(r.inputUrl, r.mode) THEN Err(400, "Domain not allowed")
    ELSE IF r.mode = "sandbox"
    THEN IF sandboxLookup(r.inputUrl) = Null
         THEN Err(404, "Sandbox has no fixture for this URL/ID.")
         ELSE Json(sandboxLookup(r.inputUrl))
    ELSE IF r.brOut.kind = "threw" THEN catchResponse(r.brOut.msg)
    ELSE afterBrowser(r.mode, r.brOut.data).resp

C23_Isolated(r) ==
    /\ sessions[r.me] = r.browser
    /\ r.pc \in {"DONE", "FAILED"} => (r.sent = 1 /\ r.resp = AloneResponse(r))

\* C23: requests in hand at the same time share no mutable state: each one's
\* answer is what it would be alone with the same replies, each browser
\* request opens and closes a session of its own (the other's is left as
\* it is), and neither the configuration nor the fixture table is written.
C23_RequestsDoNotInterfere ==
    /\ [](C23_Isolated(Running) /\ C23_Isolated(conc.parked))
    /\ [][cfg' = cfg /\ fixtures' = fixtures]_vars

C23_Witness ==
    /\ mode = "browser"
    /\ conc.parked.mode = "browser"
    /\ inputUrl = conc.parked.inputUrl
    /\ pc = "BR_EVAL"
    /\ conc.parked.pc = "DONE"
    /\ sessions[conc.me] = "open"
    /\ sessions[conc.parked.me] = "closed"
    /\ ocr.pc = "TESS_WAIT"

\* C24: in auto mode a browser launch comes only after the direct fetch has
\* been made and tryHtml has returned null or a record that fails the
\* completeness check; the browser is launched at most once per request and
\* never after a record that passes the check.
C24_AutoFetchBeforeSingleLaunch ==
    mode = "auto" =>
        /\ nLaunch <= 1
        /\ (pc = "BROWSER" \/ nLaunch > 0) =>
               /\ nFetch = 1
               /\ htmlOut.kind = "value"
               /\ (htmlOut.data = Null \/ ~minimalOk(htmlOut.data))
        /\ (htmlOut.kind = "value" /\ htmlOut.data # Null /\ minimalOk(htmlOut.data)) =>
               (nLaunch = 0 /\ browser = "none" /\ pc = "DONE")

C24_Witness ==
    /\ mode = "auto"
    /\ nFetch = 1
    /\ nLaunch = 1
    /\ htmlOut.kind = "value"
    /\ htmlOut.data # Null
    /\ pc = "DONE"

\* the first non-empty candidate of a chain, null when there is none
RECURSIVE FirstNonEmpty(_)
FirstNonEmpty(cands) ==
    IF cands = <<>> THEN Null
    ELSE IF Truthy(cands[1]) THEN cands[1] ELSE FirstNonEmpty(Tail(cands))

\* the value a field should end with: the structured one when it is
\* non-empty, else the first non-empty candidate, else null
Preferred(ld, cands) == IF Truthy(ld) THEN ld ELSE FirstNonEmpty(cands)

\* the candidates an extractor had for a field
CandsOf(f) ==
    IF arg.of = "html" THEN arg.page[f]
    ELSE IF BranchOf(toLowerCase(arg.url.hostname)) = "none" THEN <<>>
    ELSE IF arg.page[f].t # "str" THEN <<arg.page[f]>>
    ELSE IF f = "image" THEN <<arg.page[f]>>
    ELSE <<Str(trim(arg.page[f].v))>>

\* C25: in both extractors a field the first Product node supplies with a
\* non-empty value is kept (for the name, up to the removal of the
\* ": Amazon.in" tail); otherwise the first non-empty selector candidate in
\* the listed order is taken; and when no candidate is non-empty the field is
\* null.
C25_StructuredFirstThenSelectors ==
    fn \in {"extractFromHtml", "extractWithBrowser"} =>
        LET node == arg.page.node
            amazon == BranchOf(toLowerCase(arg.url.hostname)) = "amazon"
            name == Preferred(ldName(node), CandsOf("productName"))
        IN  /\ ret.productName = IF amazon THEN stripAmazonTag(name) ELSE name
            /\ ret.brand = Preferred(ldBrand(node), CandsOf("brand"))
            /\ ret.image = Preferred(ldImage(node), CandsOf("image"))
            /\ ret.price = normalizePrice(Preferred(ldPrice(node), CandsOf("price")))

\* the value an extractor hands to normalizePrice
RawPrice ==
    LET br == BranchOf(toLowerCase(arg.url.hostname))
        ld == ldPrice(arg.page.node)
    IN  IF br = "none" THEN ld
        ELSE IF arg.of = "html" THEN OrAssign(ld, arg.page.price)
        ELSE LocText(ld, arg.page.price)

\* digits with at most one "." among them, and at least one digit
ValidNumber(s) ==
    /\ \E i \in 1..Len(s) : IsDigit(s[i])
    /\ Cardinality({i \in 1..Len(s) : s[i] = "."}) <= 1

\* C26: the price of a record is null for a null input and for a string whose
\* digits and "." do not make a finite number (a string with no digit among
\* them), never 0 in that case; otherwise it is the number those characters
\* spell; so it is always null or a finite number.
C26_PriceNullUnlessNumber ==
    fn \in {"extractFromHtml", "extractWithBrowser"} =>
        LET kept == SelectSeq(RawPrice.v, LAMBDA c : IsDigit(c) \/ c = ".")
        IN  /\ RawPrice = Null => ret.price = Null
            /\ RawPrice.t = "str" =>
                   ret.price = IF ValidNumber(kept) THEN NumberOf(kept) ELSE Null
            /\ ret.price = Null \/ ret.price.t = "num"

\* C27: in every Field Parser result each of the seven slots is compliant
\* exactly when its text is a non-empty string: never compliant with text
\* null, never a text with compliant false; the manufacturer text is the
\* capture with the blanks at its ends removed.
C27_CompliantIffText ==
    fn = "parseFields" =>
        /\ \A f \in SlotNames :
              /\ ret[f].compliant \in BOOLEAN
              /\ ret[f].compliant <=> (ret[f].text.t = "str" /\ Len(ret[f].text.v) > 0)
              /\ ~ret[f].compliant => ret[f].text = Null
        /\ ret.manufacturer.compliant =>
              /\ ret.manufacturer.text.v[1] # " "
              /\ ret.manufacturer.text.v[Len(ret.manufacturer.text.v)] # " "

C27_Witness ==
    /\ fn = "parseFields"
    /\ ret.manufacturer.compliant
    /\ ret.manufacturer.text = Str(<<"A","&","B"," ",".">>)
    /\ ~ret.countryOfOrigin.compliant
    /\ ret.countryOfOrigin.text = Null

\* C28: an OCR answer names the strategy that produced its text: one of the
\* four strategies, and for a single-engine strategy every recognition call
\* of the request went to that engine; an explicit request for the cloud or
\* the generative provider without its credentials is answered with an error
\* and no engine is run.
C28_ResponseNamesEngineThatRan ==
    ocr.pc = "DONE" =>
        /\ ocr.resp.status = 200 =>
              /\ ocr.resp.data.provider \in {"vision", "gemini", "tesseract", "hybrid"}
              /\ ocr.calls # <<>>
              /\ ocr.resp.data.provider # "hybrid" =>
                    \A k \in 1..Len(ocr.calls) : ocr.calls[k].api = ocr.resp.data.provider
        /\ (ocr.provider = "vision" /\ ~cfg.visionClient) =>
              (ocr.resp.status # 200 /\ ocr.calls = <<>>)
        /\ (ocr.provider = "gemini" /\ ~cfg.genAI) =>
              (ocr.resp.status # 200 /\ ocr.calls = <<>>)

\* the label that goes with a branch of the selector table
LabelOfBranch(branch) ==
    CASE branch = "amazon" -> "Amazon"
      [] branch = "flipkart" -> "Flipkart"
      [] branch = "myntra" -> "Myntra"
      [] branch = "nykaa" -> "Nykaa"
      [] branch = "bigbasket" -> "BigBasket"

\* C29: for every host the guard accepts, the platform of the record is not
\* "Unknown", and it is the platform of the host-suffix branch whose
\* selectors were used for the record.
C29_PlatformIsThatOfMatchedSuffix ==
    fn \in {"extractFromHtml", "extractWithBrowser"} =>
        LET host == toLowerCase(arg.url.hostname)
        IN  isAllowedHost(host) =>
               /\ ret.platform # "Unknown"
               /\ BranchOf(host) # "none" => ret.platform = LabelOfBranch(BranchOf(host))

\* the state of the controller a position of the handler belongs to
PhaseOf(p) ==
    IF p \in {"HTML", "HTML_BODY"} THEN "HTML"
    ELSE IF p \in {"BROWSER", "BR_CONTEXT", "BR_GOTO", "BR_EVAL", "BR_FINALLY", "BR_RETURN"}
    THEN "BROWSER"
    ELSE p

\* the steps of START -> GUARD -> {SANDBOX | HTML | BROWSER} -> DONE | FAILED
PhaseSteps ==
    {<<"START", "GUARD">>, <<"GUARD", "SANDBOX">>, <<"GUARD", "HTML">>,
     <<"GUARD", "BROWSER">>, <<"GUARD", "FAILED">>,
     <<"SANDBOX", "DONE">>, <<"SANDBOX", "FAILED">>,
     <<"HTML", "HTML">>, <<"HTML", "BROWSER">>, <<"HTML", "DONE">>, <<"HTML", "FAILED">>,
     <<"BROWSER", "BROWSER">>, <<"BROWSER", "DONE">>, <<"BROWSER", "FAILED">>}

\* what AUTO answers, given what the extractors produced
AutoResponse ==
    IF guardRejects(inputUrl, mode) THEN Err(400, "Domain not allowed")
    ELSE IF htmlOut.kind = "threw" THEN catchResponse(htmlOut.msg)
    ELSE IF htmlOut.data # Null /\ minimalOk(htmlOut.data) THEN Json(htmlOut.data)
    ELSE IF brOut.kind = "threw" THEN catchResponse(brOut.msg)
    ELSE IF minimalOk(brOut.data) THEN Json(brOut.data)
    ELSE Err(451, "Could not extract product details (auto).")

C30_Terminal == pc \in {"DONE", "FAILED"}

\* C30: a request moves START -> GUARD -> {SANDBOX | HTML | BROWSER} ->
\* DONE | FAILED; it has sent exactly one response when it is at DONE or
\* FAILED and none before; from DONE or FAILED nothing more happens (no
\* extractor call, no second response); and a mode other than sandbox, html
\* and browser, whatever its value, is answered as auto is.
C30_OnePathOneResponse ==
    /\ [](/\ C30_Terminal => sent = 1
          /\ ~C30_Terminal => (sent = 0 /\ resp = NoResp)
          /\ (C30_Terminal /\ mode \notin {"sandbox", "html", "browser"}) =>
                 resp = AutoResponse)
    /\ [][/\ ~C30_Terminal
           /\ <<PhaseOf(pc), PhaseOf(pc')>> \in PhaseSteps]_vars

C30_Witness ==
    /\ mode = "turbo"
    /\ pc = "FAILED"
    /\ sent = 1
    /\ nFetch = 1
    /\ nLaunch = 1
    /\ browser = "closed"
    /\ resp.status = 451

====
